---- MODULE Spec2Model ----
(***************************************************************************)
(* Deep Research agent: the Search Gateway (foundry-tools.ts), the         *)
(* research functions (research-functions.ts) and the research loop that   *)
(* drives them.                                                            *)
(*                                                                         *)
(* Strings are represented by what the code does with them.  A text that   *)
(* is compared or passed on (a query, a topic, a label) is a TLA+ string;  *)
(* a text whose size matters (a backend payload, the content of a search   *)
(* result) is a record carrying its length in characters, so that          *)
(* String.prototype.slice(0, n) is Min(length, n).                         *)
(***************************************************************************)
EXTENDS Integers, Sequences, FiniteSets, TLC

\* ------------------------------------------------------------------ bounds

\* Largest number of loop iterations (constants.ts, imported by
\* research-functions.ts; the configured "max iterations").
MAX_ITERATIONS == 2

\* Largest number of queries in one batch returned by a generation call
\* inside a whole run.
MaxBatch == 2

\* Largest number of queries a generation call answers with when the
\* dispatch of a batch is looked at on its own.
MaxAnswer == 6

\* ------------------------------------------------------- program constants

\* The character budget of a result's content: .slice(0, 15000).
MaxContent == 15000

\* maxResults of the per-category queries of an auto-discover search.
PerCategoryResults == 3

\* ------------------------------------------------------------------ helpers

Min(a, b) == IF a <= b THEN a ELSE b

\* String.prototype.slice(0, n) on a text of length len: the length kept.
SliceLen(len, n) == Min(len, n)

\* Length of the query texts of the model.
StrLen(s) ==
  CASE s = "topic" -> 24
    [] s = "q1" -> 12
    [] s = "q2" -> 12
    [] s = "Please try a different search query" -> 35
    [] OTHER -> 0

\* ------------------------------------------------- web backend (gateway)

\* callFoundryFunction without the checks of the environment: the request is
\* sent whatever is configured.
callFoundryFunctionUnchecked(env, net) ==
  IF net.t = "netError" THEN [t |-> "throw", msgLen |-> net.msgLen]
  ELSE IF net.t = "httpError" THEN [t |-> "throw", msgLen |-> 10 + net.msgLen]
  ELSE IF net.t = "badJson" THEN [t |-> "throw", msgLen |-> net.msgLen]
  ELSE [t |-> "ok", value |-> net.body]

\* callFoundryFunction(functionName, {queries: [query]}): env is the
\* process environment (which settings are present), net what the HTTP
\* exchange does.  Returns [t |-> "ok", value |-> body] or the thrown error
\* [t |-> "throw", msgLen |-> length of error.message].
callFoundryFunction(env, net) ==
  IF ~env.token THEN [t |-> "throw", msgLen |-> 46]
  ELSE IF ~env.apiName THEN [t |-> "throw", msgLen |-> 58]
  ELSE IF net.t = "netError" THEN [t |-> "throw", msgLen |-> net.msgLen]
  ELSE IF net.t = "httpError" THEN [t |-> "throw", msgLen |-> 10 + net.msgLen]
  ELSE IF net.t = "badJson" THEN [t |-> "throw", msgLen |-> net.msgLen]
  ELSE [t |-> "ok", value |-> net.body]

\* The unwrapping without JSON.stringify for a bare object: JSON.parse is
\* handed the object itself and throws.
UnwrapNoStringify(body) ==
  IF body.wrap = "value" THEN [parses |-> body.valueIsJson, payload |-> body.payload]
  ELSE IF body.wrap = "string" THEN [parses |-> body.valueIsJson, payload |-> body.payload]
  ELSE [parses |-> FALSE, payload |-> body.payload]

\* One layer of envelope is taken off: {value: s} gives s, a string stays,
\* an object is re-serialised.  The result is the text handed to JSON.parse:
\* [parses |-> BOOLEAN, payload |-> the parsed object].
Unwrap(body) ==
  IF body.wrap = "value" THEN [parses |-> body.valueIsJson, payload |-> body.payload]
  ELSE IF body.wrap = "string" THEN [parses |-> body.valueIsJson, payload |-> body.payload]
  ELSE [parses |-> TRUE, payload |-> body.payload]

\* JSON.stringify(parsedResult).length for the fallback return.
PayloadJsonLen(p) ==
  2 + p.extraLen
    + (IF p.error > 0 THEN 11 + p.error ELSE 0)
    + (IF p.details > 0 THEN 13 + p.details ELSE 0)
    + (IF Len(p.searchResults) > 0
         THEN 60 + p.searchResults[1].resultsLen + p.searchResults[1].error
         ELSE 0)

\* The try block of webSearch looking at the top-level error before the
\* error of the first query.
webSearchTryTopErrorFirst(query, called) ==
  IF called.t = "throw" THEN called
  ELSE LET u == Unwrap(called.value)
           p == u.payload
       IN IF ~u.parses
            THEN [t |-> "throw", msgLen |-> 40]
          ELSE IF Len(p.searchResults) > 0
                  /\ p.searchResults[1].success
                  /\ p.searchResults[1].nResults > 0
            THEN [t |-> "ok", value |->
                   [kind |-> "success",
                    len |-> SliceLen(27 + p.searchResults[1].resultsLen, MaxContent)]]
          ELSE IF p.error > 0
            THEN [t |-> "ok", value |->
                   [kind |-> "topError",
                    len |-> SliceLen(23 + p.error + StrLen(query)
                                       + (IF p.details > 0 THEN 13 + p.details ELSE 0),
                                     MaxContent)]]
          ELSE IF Len(p.searchResults) > 0 /\ p.searchResults[1].error > 0
            THEN [t |-> "ok", value |->
                   [kind |-> "queryError",
                    len |-> SliceLen(23 + p.searchResults[1].error + StrLen(query),
                                     MaxContent)]]
          ELSE [t |-> "ok", value |->
                 [kind |-> "raw", len |-> SliceLen(PayloadJsonLen(p), MaxContent)]]

\* The try block of webSearch (lines 65-125) once the backend call returned
\* or threw: a completion, [t |-> "ok", value |-> content] or the error thrown
\* inside the block.  A content string is [kind, len].
webSearchTry(query, called) ==
  IF called.t = "throw" THEN called
  ELSE LET u == Unwrap(called.value)
           p == u.payload
       IN IF ~u.parses
            THEN \* JSON.parse throws a SyntaxError
                 [t |-> "throw", msgLen |-> 40]
          ELSE IF Len(p.searchResults) > 0
                  /\ p.searchResults[1].success
                  /\ p.searchResults[1].nResults > 0
            THEN [t |-> "ok", value |->
                   [kind |-> "success",
                    len |-> SliceLen(27 + p.searchResults[1].resultsLen, MaxContent)]]
          ELSE IF Len(p.searchResults) > 0 /\ p.searchResults[1].error > 0
            THEN [t |-> "ok", value |->
                   [kind |-> "queryError",
                    len |-> SliceLen(23 + p.searchResults[1].error + StrLen(query),
                                     MaxContent)]]
          ELSE IF p.error > 0
            THEN [t |-> "ok", value |->
                   [kind |-> "topError",
                    len |-> SliceLen(23 + p.error + StrLen(query)
                                       + (IF p.details > 0 THEN 13 + p.details ELSE 0),
                                     MaxContent)]]
          ELSE [t |-> "ok", value |->
                 [kind |-> "raw", len |-> SliceLen(PayloadJsonLen(p), MaxContent)]]

\* The catch block of webSearch (lines 126-134): the structured error text
\* {error: "Foundry function call failed", message, query}.
webSearchCatch(query, err) ==
  [t |-> "ok", value |->
    [kind |-> "callFailed",
     len |-> SliceLen(64 + err.msgLen + StrLen(query), MaxContent)]]

\* webSearch with its catch block left out: the error leaves the function.
webSearchNoCatch(query, env, net) ==
  webSearchTry(query, callFoundryFunction(env, net))

\* webSearch(query): env and net are what the environment and the network
\* do during the call.
webSearch(query, env, net) ==
  LET r == webSearchTry(query, callFoundryFunction(env, net))
  IN IF r.t = "throw" THEN webSearchCatch(query, r) ELSE r

\* -------------------------------------------- entity backend (gateway)

RECURSIVE SumSizes(_)
\* Total rendered length of a list of entities.
SumSizes(es) == IF es = <<>> THEN 0 ELSE es[1].size + SumSizes(Tail(es))

RECURSIVE SumTotals(_)
\* results.reduce((sum, r) => sum + (r.totalCount || 0), 0)
SumTotals(rs) == IF rs = <<>> THEN 0 ELSE rs[1].totalCount + SumTotals(Tail(rs))

RECURSIVE FlatData(_)
\* results.flatMap(r => r.data || [])
FlatData(rs) == IF rs = <<>> THEN <<>> ELSE rs[1].data \o FlatData(Tail(rs))

\* Array.prototype.slice(0, n)
Take(seq, n) == SubSeq(seq, 1, Min(Len(seq), n))

EmptyResponse == [data |-> <<>>, totalCount |-> 0, searchedTypes |-> <<>>,
                  message |-> "", hasNext |-> FALSE]

\* listObjectTypes answering a failed discovery with an empty list, as the
\* wrapper of the same name in foundry-tools.ts does.
listObjectTypesEmptyOnError(ont) ==
  IF ont.list.t = "throw" THEN [t |-> "ok", value |-> <<>>]
  ELSE [t |-> "ok", value |-> ont.list.types]

\* listObjectTypes(rid): the category names, or the API error rethrown.
listObjectTypes(ont) ==
  IF ont.list.t = "throw" THEN [t |-> "throw", msgLen |-> 25 + ont.list.msgLen]
  ELSE [t |-> "ok", value |-> ont.list.types]

\* The page the backend sends for a search request with this pageSize, out
\* of what it holds for the query: at most pageSize entities, with a next
\* page token when it holds more.
Page(response, pageSize) ==
  [response EXCEPT !.data = Take(@, pageSize),
                   !.hasNext = @ \/ Len(response.data) > pageSize]

\* queryOntologyByType without the inner try around the schema fetch: a
\* schema failure leaves the function.
queryOntologyByTypeSchemaRethrown(type, tb) ==
  IF tb.schema = "throw" THEN [t |-> "throw", msgLen |-> 25 + 30]
  ELSE IF tb.stringFields = 0 THEN [t |-> "ok", value |-> EmptyResponse]
  ELSE IF tb.search.t = "throw"
    THEN [t |-> "throw", msgLen |-> 25 + tb.search.msgLen]
  ELSE [t |-> "ok", value |-> Page(tb.search.value, PerCategoryResults)]

\* queryOntologyByType called without maxResults, so with its default of 10.
queryOntologyByTypeDefaultPage(type, tb) ==
  IF tb.schema = "throw" THEN [t |-> "ok", value |-> EmptyResponse]
  ELSE IF tb.stringFields = 0 THEN [t |-> "ok", value |-> EmptyResponse]
  ELSE IF tb.search.t = "throw"
    THEN [t |-> "throw", msgLen |-> 25 + tb.search.msgLen]
  ELSE [t |-> "ok", value |-> Page(tb.search.value, 10)]

\* queryOntologyByType(type, query, {ontologyRid, maxResults: 3}) with no
\* search fields given: the schema is fetched first; tb is what the backend
\* does for this category.
queryOntologyByType(type, tb) ==
  IF tb.schema = "throw" THEN [t |-> "ok", value |-> EmptyResponse]
  ELSE IF tb.stringFields = 0 THEN [t |-> "ok", value |-> EmptyResponse]
  ELSE IF tb.search.t = "throw"
    THEN [t |-> "throw", msgLen |-> 25 + tb.search.msgLen]
  ELSE [t |-> "ok", value |-> Page(tb.search.value, PerCategoryResults)]

\* The .catch() attached to each per-category query (lines 165-168).
CategoryResult(type, tb) ==
  LET r == queryOntologyByType(type, tb)
  IN IF r.t = "throw" THEN EmptyResponse ELSE r.value

\* Results collected in the order in which the promises settled.
promiseAllByCompletion(results, order) ==
  IF order = "reversed"
    THEN [i \in 1..Len(results) |-> results[Len(results) + 1 - i]]
    ELSE results

\* await Promise.all(searchPromises): the results by position, whatever the
\* order in which the promises settled.
promiseAll(results, order) == results

\* searchOntologyObjects searching every discovered category.
searchOntologyObjectsAllTypes(query, maxResults, ont) ==
  IF ~ont.rid
    THEN [t |-> "ok", value |->
           [EmptyResponse EXCEPT !.message = "Ontology search not configured"]]
  ELSE LET listed == listObjectTypes(ont)
       IN IF listed.t = "throw" THEN listed
          ELSE IF Len(listed.value) = 0 THEN [t |-> "ok", value |-> EmptyResponse]
          ELSE LET typesToSearch == listed.value
                   results == promiseAll(
                                [i \in 1..Len(typesToSearch) |->
                                   CategoryResult(typesToSearch[i],
                                                  ont.perType[typesToSearch[i]])],
                                ont.order)
               IN [t |-> "ok", value |->
                    [data |-> Take(FlatData(results), maxResults),
                     totalCount |-> SumTotals(results),
                     searchedTypes |-> typesToSearch,
                     message |-> "",
                     hasNext |-> FALSE]]

\* searchOntologyObjects without the .catch() on the per-category queries:
\* Promise.all rejects with the error of the first category that failed.
searchOntologyObjectsNoCatch(query, maxResults, ont) ==
  IF ~ont.rid
    THEN [t |-> "ok", value |->
           [EmptyResponse EXCEPT !.message = "Ontology search not configured"]]
  ELSE LET listed == listObjectTypes(ont)
       IN IF listed.t = "throw" THEN listed
          ELSE IF Len(listed.value) = 0 THEN [t |-> "ok", value |-> EmptyResponse]
          ELSE LET typesToSearch == Take(listed.value, 5)
                   queried == [i \in 1..Len(typesToSearch) |->
                                 queryOntologyByType(typesToSearch[i],
                                                     ont.perType[typesToSearch[i]])]
                   failed == {i \in 1..Len(queried) : queried[i].t = "throw"}
               IN IF failed # {}
                    THEN queried[CHOOSE i \in failed : \A j \in failed : i <= j]
                  ELSE LET results == [i \in 1..Len(queried) |-> queried[i].value]
                       IN [t |-> "ok", value |->
                            [data |-> Take(FlatData(results), maxResults),
                             totalCount |-> SumTotals(results),
                             searchedTypes |-> typesToSearch,
                             message |-> "",
                             hasNext |-> FALSE]]

\* searchOntologyObjects(query, {maxResults, autoDiscover: true}) with no
\* objectType, as ontologySearch calls it.
searchOntologyObjects(query, maxResults, ont) ==
  IF ~ont.rid
    THEN [t |-> "ok", value |->
           [EmptyResponse EXCEPT !.message = "Ontology search not configured"]]
  ELSE LET listed == listObjectTypes(ont)
       IN IF listed.t = "throw" THEN listed
          ELSE IF Len(listed.value) = 0 THEN [t |-> "ok", value |-> EmptyResponse]
          ELSE LET typesToSearch == Take(listed.value, 5)
                   results == promiseAll(
                                [i \in 1..Len(typesToSearch) |->
                                   CategoryResult(typesToSearch[i],
                                                  ont.perType[typesToSearch[i]])],
                                ont.order)
               IN [t |-> "ok", value |->
                    [data |-> Take(FlatData(results), maxResults),
                     totalCount |-> SumTotals(results),
                     searchedTypes |-> typesToSearch,
                     message |-> "",
                     hasNext |-> FALSE]]

\* JSON.stringify(formattedResults, null, 2).length
FormattedLen(query, response) ==
  96 + StrLen(query) + 12 * Len(response.searchedTypes) + SumSizes(response.data)

\* The try block of ontologySearch treating a search without matches as a
\* failure.
ontologySearchTryEmptyIsError(query, found) ==
  IF found.t = "throw" THEN found
  ELSE IF found.value.message = "Ontology search not configured"
    THEN [t |-> "ok", value |-> [kind |-> "notConfigured", len |-> 145]]
  ELSE IF found.value.totalCount = 0
    THEN [t |-> "throw", msgLen |-> 20]
  ELSE LET jsonLen == FormattedLen(query, found.value)
       IN [t |-> "ok", value |->
            [kind |-> "ontology",
             len |-> 35 + SliceLen(jsonLen, MaxContent)
                        + (IF jsonLen > MaxContent THEN 15 ELSE 0),
             totalCount |-> found.value.totalCount,
             searchedTypes |-> found.value.searchedTypes,
             nResults |-> Len(found.value.data),
             hasMore |-> found.value.hasNext]]

\* The try block of ontologySearch (lines 142-176).
ontologySearchTry(query, found) ==
  IF found.t = "throw" THEN found
  ELSE IF found.value.message = "Ontology search not configured"
    THEN [t |-> "ok", value |-> [kind |-> "notConfigured", len |-> 145]]
  ELSE LET jsonLen == FormattedLen(query, found.value)
       IN [t |-> "ok", value |->
            [kind |-> "ontology",
             len |-> 35 + SliceLen(jsonLen, MaxContent)
                        + (IF jsonLen > MaxContent THEN 15 ELSE 0),
             totalCount |-> found.value.totalCount,
             searchedTypes |-> found.value.searchedTypes,
             nResults |-> Len(found.value.data),
             hasMore |-> found.value.hasNext]]

\* The catch block of ontologySearch (lines 177-192).
ontologySearchCatch(query, err) ==
  [t |-> "ok", value |->
    [kind |-> "ontologyError", len |-> 286 + StrLen(query) + err.msgLen]]

\* ontologySearch(query)
ontologySearch(query, ont) ==
  LET r == ontologySearchTry(query, searchOntologyObjects(query, 10, ont))
  IN IF r.t = "throw" THEN ontologySearchCatch(query, r) ELSE r

\* ------------------------------------------- requests sent to the backends

\* One HTTP request: the backend it goes to, the operation, the category it
\* names ("" when none) and the query texts it carries.
Req(backend, op, type, queries) ==
  [backend |-> backend, op |-> op, type |-> type, queries |-> queries]

\* callFoundryFunction sending its request a second time.
callFoundryFunctionRequestsTwice(env, queries) ==
  IF ~env.token \/ ~env.apiName THEN <<>>
  ELSE <<Req("web", "execute", "", queries), Req("web", "execute", "", queries)>>

\* The requests callFoundryFunction sends: one fetch with body {parameters},
\* none when a setting is absent (it throws before the fetch).
callFoundryFunctionRequests(env, queries) ==
  IF ~env.token \/ ~env.apiName THEN <<>>
  ELSE <<Req("web", "execute", "", queries)>>

\* webSearch sending the topic of the run along with the query.
webSearchRequestsWithTopic(query, env) ==
  callFoundryFunctionRequests(env, <<query, "topic">>)

\* The requests of webSearch(query): callFoundryFunction(functionName,
\* {queries: [query]}), called once.
webSearchRequests(query, env) == callFoundryFunctionRequests(env, <<query>>)

\* The requests of queryOntologyByType: the schema of the category is
\* fetched, and the search is sent when the schema has string fields.
queryOntologyByTypeRequests(type, query, tb) ==
  <<Req("ontology", "schema", type, <<>>)>>
    \o (IF tb.schema = "throw" \/ tb.stringFields = 0 THEN <<>>
        ELSE <<Req("ontology", "search", type, <<query>>)>>)

RECURSIVE CategoryRequests(_, _, _)
\* The requests of typesToSearch.map(type => queryOntologyByType(...)).
CategoryRequests(types, query, ont) ==
  IF types = <<>> THEN <<>>
  ELSE queryOntologyByTypeRequests(types[1], query, ont.perType[types[1]])
         \o CategoryRequests(Tail(types), query, ont)

\* The requests of ontologySearch(query): category discovery, then the
\* first five categories.
ontologySearchRequests(query, ont) ==
  IF ~ont.rid THEN <<>>
  ELSE <<Req("ontology", "listObjectTypes", "", <<>>)>>
         \o (IF ont.list.t = "throw" THEN <<>>
             ELSE CategoryRequests(Take(ont.list.types, 5), query, ont))

\* The auto-discover branch of searchOntologyObjects (lines 148-181) with
\* the requests it sends.
AutoDiscovered(searchQuery, maxResults, ont) ==
  LET r == searchOntologyObjects(searchQuery, maxResults, ont)
      sent == ontologySearchRequests(searchQuery, ont)
  IN IF r.t = "throw" THEN [t |-> "throw", msgLen |-> r.msgLen, reqs |-> sent]
     ELSE [t |-> "ok", value |-> r.value, reqs |-> sent]

\* searchOntologyObjects going on to auto-discovery when the category that
\* was asked for has no match.
searchOntologyObjectsFallsBack(searchQuery, options, ont) ==
  IF ~ont.rid
    THEN [t |-> "ok",
          value |-> [EmptyResponse EXCEPT !.message = "Ontology search not configured"],
          reqs |-> <<>>]
  ELSE IF options.objectType # ""
    THEN LET found == ont.perType[options.objectType].search
             sent == <<Req("ontology", "search", options.objectType, <<searchQuery>>)>>
         IN IF found.t = "throw"
              THEN [t |-> "throw", msgLen |-> 25 + found.msgLen, reqs |-> sent]
            ELSE IF found.value.totalCount = 0
              THEN LET d == AutoDiscovered(searchQuery, options.maxResults, ont)
                   IN [d EXCEPT !.reqs = sent \o d.reqs]
            ELSE [t |-> "ok", value |-> Page(found.value, options.maxResults),
                  reqs |-> sent]
  ELSE IF options.autoDiscover
    THEN AutoDiscovered(searchQuery, options.maxResults, ont)
  ELSE [t |-> "throw", msgLen |-> 100, reqs |-> <<>>]

\* searchOntologyObjects(searchQuery, options) with any options: objectType
\* ("" when not given), maxResults and autoDiscover; the outcome carries
\* the requests that were sent. A given objectType is searched with one
\* POST to its search endpoint, before autoDiscover is looked at.
searchOntologyObjectsWith(searchQuery, options, ont) ==
  IF ~ont.rid
    THEN [t |-> "ok",
          value |-> [EmptyResponse EXCEPT !.message = "Ontology search not configured"],
          reqs |-> <<>>]
  ELSE IF options.objectType # ""
    THEN LET found == ont.perType[options.objectType].search
             sent == <<Req("ontology", "search", options.objectType, <<searchQuery>>)>>
         IN IF found.t = "throw"
              THEN [t |-> "throw", msgLen |-> 25 + found.msgLen, reqs |-> sent]
            ELSE [t |-> "ok", value |-> Page(found.value, options.maxResults),
                  reqs |-> sent]
  ELSE IF options.autoDiscover
    THEN AutoDiscovered(searchQuery, options.maxResults, ont)
  ELSE [t |-> "throw", msgLen |-> 100, reqs |-> <<>>]

\* ------------------------------------------------------ research functions

Act(category, status) == [type |-> "activity", category |-> category, status |-> status]

\* null, as returned for a failed extraction.
Null == [null |-> TRUE]

\* handleError(error, context, activityTracker, activityType, fallbackReturn):
\* records one error activity and hands back the fallback value.
handleError(activityType, fallbackReturn) ==
  [t |-> "ok", value |-> fallbackReturn, acts |-> <<Act(activityType, "error")>>]

\* generateSearchQueries whose fallback is an empty query list.
generateSearchQueriesEmptyFallback(researchTopic, called) ==
  IF called.t = "throw"
    THEN LET h == handleError("planning", [searchQueries |-> <<>>])
         IN [h EXCEPT !.acts = <<Act("planning", "pending")>> \o h.acts]
    ELSE [t |-> "ok", value |-> called.value,
          acts |-> <<Act("planning", "pending"), Act("planning", "complete")>>]

\* generateSearchQueries: called is the completion of the planning callModel.
generateSearchQueries(researchTopic, called) ==
  IF called.t = "throw"
    THEN LET h == handleError("planning",
                    [searchQueries |-> <<[query |-> researchTopic, source |-> "web"]>>])
         IN [h EXCEPT !.acts = <<Act("planning", "pending")>> \o h.acts]
    ELSE [t |-> "ok", value |-> called.value,
          acts |-> <<Act("planning", "pending"), Act("planning", "complete")>>]

\* search returning the results of both sources, as the deprecated
\* executeFoundrySearch did.
searchSettledBoth(source, got) ==
  IF got.t = "throw"
    THEN LET h == handleError("search", <<>>)
         IN [t |-> "ok", value |-> h.value, acts |-> h.acts, steps |-> 0]
    ELSE [t |-> "ok",
          value |-> <<[title |-> "Web Results", url |-> "Firecrawl", content |-> got.value],
                      [title |-> "Internal Ontology", url |-> "Palantir",
                       content |-> got.value]>>,
          acts |-> <<Act("search", "complete")>>,
          steps |-> 1]

\* search(query, source, ...) from the point where the gateway call settled
\* (the pending activity is recorded when the search is started): got is the
\* completion of webSearch or ontologySearch.
searchSettled(source, got) ==
  IF got.t = "throw"
    THEN LET h == handleError("search", <<>>)
         IN [t |-> "ok", value |-> h.value, acts |-> h.acts, steps |-> 0]
    ELSE [t |-> "ok",
          value |-> <<[title |-> IF source = "web" THEN "Web Results"
                                                   ELSE "Ontology Results",
                       url |-> IF source = "web" THEN "Firecrawl" ELSE "Foundry",
                       content |-> got.value]>>,
          acts |-> <<Act("search", "complete")>>,
          steps |-> 1]

\* search(query, source, researchState, activityTracker)
search(query, source, env, net, ont) ==
  searchSettled(source, IF source = "web" THEN webSearch(query, env, net)
                                          ELSE ontologySearch(query, ont))

\* search running both gateways for every query, as the deprecated
\* executeFoundrySearch did.
searchRequestsBoth(query, source, env, ont) ==
  webSearchRequests(query, env) \o ontologySearchRequests(query, ont)

\* search sending every query to the web gateway, whatever its source.
searchRequestsIgnoresSource(query, source, env, ont) ==
  webSearchRequests(query, env)

\* The requests of search(query, source): those of the one gateway that the
\* source names.
searchRequests(query, source, env, ont) ==
  IF source = "web" THEN webSearchRequests(query, env)
  ELSE ontologySearchRequests(query, ont)

\* extractContent whose failure yields a result with an empty summary
\* instead of null.
extractContentEmptySummary(url, called) ==
  IF called.t = "throw"
    THEN handleError("extract", [url |-> url, summary |-> ""])
    ELSE [t |-> "ok", value |-> [url |-> url, summary |-> called.value.summary],
          acts |-> <<Act("extract", "complete")>>]

\* extractContent from the point where its callModel settled.
extractContent(url, called) ==
  IF called.t = "throw"
    THEN handleError("extract", Null)
    ELSE [t |-> "ok", value |-> [url |-> url, summary |-> called.value.summary],
          acts |-> <<Act("extract", "complete")>>]

\* processSearchResults with Promise.all in place of Promise.allSettled and
\* the filter: one failed extraction loses the findings of all.
NewFindingsAllOrNothing(settled) ==
  IF \E j \in 1..Len(settled) :
       settled[j].status # "fulfilled" \/ settled[j].value = Null
    THEN <<>>
    ELSE [j \in 1..Len(settled) |->
            [summary |-> settled[j].value.summary, source |-> settled[j].value.url]]

RECURSIVE NewFindings(_)
\* processSearchResults after Promise.allSettled: the fulfilled, non-null
\* extraction results, in order, as findings.
NewFindings(settled) ==
  IF settled = <<>> THEN <<>>
  ELSE (IF settled[1].status = "fulfilled" /\ settled[1].value # Null
          THEN <<[summary |-> settled[1].value.summary,
                  source |-> settled[1].value.url]>>
          ELSE <<>>)
       \o NewFindings(Tail(settled))

\* Length of the summary texts of the model.
SummaryLen(summary) ==
  CASE summary = "summary" -> 200
    [] OTHER -> 0

RECURSIVE combineFindings(_)
\* combineFindings(findings): the length of the text that holds every
\* finding, its summary and its source, one after the other.
combineFindings(fs) ==
  IF fs = <<>> THEN 0
  ELSE SummaryLen(fs[1].summary) + 20
         + (IF Len(fs) > 1 THEN 7 ELSE 0)
         + combineFindings(Tail(fs))

\* getAnalysisPrompt(contentText, topic, clarificationsText, currentQueries,
\* currentIteration, maxIterations, findingsLength): the numbers the prompt
\* states under "Current Research State".
getAnalysisPrompt(contentLen, currentIteration, maxIterations, findingsLength) ==
  [iteration |-> currentIteration,
   maxIterations |-> maxIterations,
   findingsCollected |-> findingsLength,
   contentChars |-> contentLen]

\* The prompt analyzeFindings builds (lines 181-195): the last argument, the
\* findings count of the prompt, is contentText.length.
analyzeFindingsPrompt(fs, currentIteration) ==
  LET contentLen == combineFindings(fs)
  IN getAnalysisPrompt(contentLen, currentIteration, MAX_ITERATIONS, contentLen)

\* analyzeFindings whose catch block rethrows.
analyzeFindingsRethrow(called) ==
  IF called.t = "throw"
    THEN [t |-> "throw", value |-> Null, acts |-> <<>>]
    ELSE [t |-> "ok", value |-> called.value,
          acts |-> <<Act("analyze", "complete")>>]

\* analyzeFindings whose fallback carries no query.
analyzeFindingsNoQuery(called) ==
  IF called.t = "throw"
    THEN handleError("analyze",
           [sufficient |-> FALSE,
            gaps |-> <<"Unable to analyze content">>,
            queries |-> <<>>])
    ELSE [t |-> "ok", value |-> called.value,
          acts |-> <<Act("analyze", "complete")>>]

\* analyzeFindings from the point where its callModel settled.
analyzeFindings(called) ==
  IF called.t = "throw"
    THEN handleError("analyze",
           [sufficient |-> FALSE,
            gaps |-> <<"Unable to analyze content">>,
            queries |-> <<[query |-> "Please try a different search query",
                           source |-> "web"]>>])
    ELSE [t |-> "ok", value |-> called.value,
          acts |-> <<Act("analyze", "complete")>>]

\* generateReport whose catch block rethrows.
generateReportRethrow(called) ==
  IF called.t = "throw"
    THEN [t |-> "throw", value |-> "", acts |-> <<Act("generate", "pending")>>]
    ELSE [t |-> "ok", value |-> called.value,
          acts |-> <<Act("generate", "pending"), Act("generate", "complete")>>]

\* generateReport whose fallback is an empty document instead of the error
\* text.
generateReportEmptyFallback(called) ==
  IF called.t = "throw"
    THEN LET h == handleError("generate", "")
         IN [h EXCEPT !.acts = <<Act("generate", "pending")>> \o h.acts]
    ELSE [t |-> "ok", value |-> called.value,
          acts |-> <<Act("generate", "pending"), Act("generate", "complete")>>]

\* generateReport: called is the completion of the report callModel.
generateReport(called) ==
  IF called.t = "throw"
    THEN LET h == handleError("generate", "Error generating report. Please try again. ")
         IN [h EXCEPT !.acts = <<Act("generate", "pending")>> \o h.acts]
    ELSE [t |-> "ok", value |-> called.value,
          acts |-> <<Act("generate", "pending"), Act("generate", "complete")>>]

\* ------------------------------------------------------------ input sets

Sources == {"web", "ontology"}

Topics == {"topic"}

\* A batch of n generated queries whose sources alternate, starting at s.
Batch(n, s) ==
  [i \in 1..n |-> [query |-> "q1",
                   source |-> IF i % 2 = 1 THEN s
                              ELSE IF s = "web" THEN "ontology" ELSE "web"]]

\* The query batches a generation call may answer with.
ModelBatches == {Batch(n, "web") : n \in 0..MaxBatch} \cup {Batch(1, "ontology")}

Thrown == [t |-> "throw", msgLen |-> 30]

\* Completions of the four callModel call sites.
PlanningCalls == {Thrown} \cup {[t |-> "ok", value |-> [searchQueries |-> b]] : b \in ModelBatches}
ExtractionCalls == {Thrown, [t |-> "ok", value |-> [summary |-> "summary"]]}
FollowUps(b) == [i \in DOMAIN b |-> [b[i] EXCEPT !.query = "q2"]]

AnalysisCalls ==
  {Thrown}
    \cup {[t |-> "ok", value |-> [sufficient |-> FALSE, gaps |-> <<>>,
                                  queries |-> FollowUps(b)]] :
            b \in ModelBatches}
    \cup {[t |-> "ok", value |-> [sufficient |-> TRUE, gaps |-> <<>>,
                                  queries |-> FollowUps(b)]] :
            b \in {Batch(0, "web"), Batch(1, "web")}}
ReportCalls == {Thrown, [t |-> "ok", value |-> "report"]}

\* Process environments: which settings are present.
Envs == [token : BOOLEAN, apiName : BOOLEAN]
EnvSet == [token |-> TRUE, apiName |-> TRUE]

\* searchResults[0] of a web backend payload.
FirstResults ==
  {[success |-> TRUE, nResults |-> 2, resultsLen |-> 400, error |-> 0],
   [success |-> TRUE, nResults |-> 9, resultsLen |-> 20000, error |-> 0],
   [success |-> TRUE, nResults |-> 2, resultsLen |-> 400, error |-> 30],
   [success |-> TRUE, nResults |-> 0, resultsLen |-> 2, error |-> 0],
   [success |-> FALSE, nResults |-> 0, resultsLen |-> 2, error |-> 30],
   [success |-> FALSE, nResults |-> 0, resultsLen |-> 2, error |-> 20000],
   [success |-> FALSE, nResults |-> 0, resultsLen |-> 2, error |-> 0]}

Payloads ==
  [searchResults : {<<>>} \cup {<<f>> : f \in FirstResults},
   error : {0, 25, 20000}, details : {0, 50}, extraLen : {0, 20000}]

GoodPayload ==
  [searchResults |-> <<[success |-> TRUE, nResults |-> 2, resultsLen |-> 400, error |-> 0]>>,
   error |-> 0, details |-> 0, extraLen |-> 0]

Bodies ==
  [wrap : {"value", "string", "object"}, valueIsJson : {TRUE}, payload : Payloads]
    \cup [wrap : {"value", "string"}, valueIsJson : {FALSE}, payload : {GoodPayload}]

\* What the HTTP exchange of callFoundryFunction does.
Nets ==
  {[t |-> "netError", msgLen |-> 20], [t |-> "httpError", msgLen |-> 30],
   [t |-> "httpError", msgLen |-> 20000], [t |-> "badJson", msgLen |-> 40]}
    \cup {[t |-> "ok", body |-> b] : b \in Bodies}

\* Category names of the entity backend, in discovery order.
TypeNames == <<"A", "B", "C", "D", "E", "F">>

Entity(rid, size) == [rid |-> rid, size |-> size]

\* What the backend does for one category.
TypeBackends ==
  {[schema |-> "throw", stringFields |-> 0, search |-> Thrown],
   [schema |-> "ok", stringFields |-> 0, search |-> Thrown],
   [schema |-> "throw", stringFields |-> 2,
    search |-> [t |-> "ok", value |->
                 [EmptyResponse EXCEPT !.data = <<Entity("e1", 300)>>, !.totalCount = 1]]],
   [schema |-> "ok", stringFields |-> 0,
    search |-> [t |-> "ok", value |->
                 [EmptyResponse EXCEPT !.data = <<Entity("e1", 300)>>, !.totalCount = 1]]],
   [schema |-> "ok", stringFields |-> 2, search |-> Thrown],
   [schema |-> "ok", stringFields |-> 2,
    search |-> [t |-> "ok", value |-> EmptyResponse]],
   [schema |-> "ok", stringFields |-> 2,
    search |-> [t |-> "ok", value |->
                 [EmptyResponse EXCEPT !.data = <<Entity("e1", 300)>>, !.totalCount = 1]]],
   [schema |-> "ok", stringFields |-> 2,
    search |-> [t |-> "ok", value |->
                 [EmptyResponse EXCEPT
                    !.data = <<Entity("e1", 6000), Entity("e2", 6000), Entity("e3", 6000)>>,
                    !.totalCount = 7, !.hasNext = TRUE]]],
   [schema |-> "ok", stringFields |-> 2,
    search |-> [t |-> "ok", value |->
                 [EmptyResponse EXCEPT
                    !.data = <<Entity("e1", 300), Entity("e2", 300),
                               Entity("e3", 300), Entity("e4", 300)>>,
                    !.totalCount = 4]]],
   [schema |-> "ok", stringFields |-> 2,
    search |-> [t |-> "ok", value |->
                 [EmptyResponse EXCEPT
                    !.data = <<Entity("e1", 1000), Entity("e2", 1000), Entity("e3", 1000)>>,
                    !.totalCount = 3]]]}

Lists ==
  {[t |-> "throw", msgLen |-> 30], [t |-> "throw", msgLen |-> 20000]}
    \cup {[t |-> "ok", types |-> SubSeq(TypeNames, 1, n)] : n \in {0, 1, 2, 6}}

\* The order in which the answers to concurrent requests arrive: as the
\* requests were listed, or the other way round.
Orders == {"listed", "reversed"}

\* The entity backend: configuration, category discovery, per category
\* behaviour (a for the first category, b for the others), and the order in
\* which its answers arrive.
Onts ==
  {[rid |-> r, list |-> l,
    perType |-> [n \in {TypeNames[i] : i \in 1..Len(TypeNames)} |->
                   IF n = TypeNames[1] THEN a ELSE b],
    order |-> o] :
     r \in BOOLEAN, l \in Lists, a \in TypeBackends, b \in TypeBackends, o \in Orders}

\* The backend behaviours drawn on inside a whole run.
RunNets == {[t |-> "netError", msgLen |-> 20],
            [t |-> "ok", body |-> [wrap |-> "value", valueIsJson |-> TRUE,
                                   payload |-> GoodPayload]]}
RunOnts == {o \in Onts : /\ o.rid
                         /\ o.order = "listed"
                         /\ o.list \in {[t |-> "throw", msgLen |-> 30],
                                        [t |-> "ok", types |-> SubSeq(TypeNames, 1, 1)]}
                         /\ o.perType["A"] = o.perType["B"]
                         /\ o.perType["A"].stringFields = 2
                         /\ o.perType["A"].search.t = "ok"
                         /\ o.perType["A"].search.value.totalCount = 1}

\* ------------------------------------------------------------------- state

VARIABLES
  phase,           \* where the run is: PLANNING, SEARCHING, SUMMARIZING,
                   \* ANALYZING, REPORTING, DONE, DONE_WITH_ERROR, FAULT
  topic,           \* ResearchState.topic
  findings,        \* ResearchState.findings
  completedSteps,  \* ResearchState.completedSteps
  iteration,       \* the loop's iteration counter
  currentQueries,  \* the query batch of this iteration
  analysis,        \* what the Judge returned last
  searches,        \* per query: "pending", or the settled search() promise
                   \* with the requests the call sent
  searchResults,   \* the results handed to processSearchResults
  extractions,     \* per result: "pending", or the settled extraction promise
  stream,          \* what the run has emitted: activities, then the terminal value
  gw               \* one Search Gateway call on its own: inputs and outcome

vars == <<phase, topic, findings, completedSteps, iteration, currentQueries,
          analysis, searches, searchResults, extractions, stream, gw>>

GwIdle == [called |-> FALSE]

\* No Judge result yet.
NoAnalysis == [sufficient |-> FALSE, gaps |-> <<>>, queries |-> <<>>]

Init ==
  /\ phase = "PLANNING"
  /\ topic \in Topics
  /\ findings = <<>>
  /\ completedSteps = 0
  /\ iteration = 1
  /\ currentQueries = <<>>
  /\ analysis = NoAnalysis
  /\ searches = <<>>
  /\ searchResults = <<>>
  /\ extractions = <<>>
  /\ stream = <<>>
  /\ gw = GwIdle

\* A promise that has not settled.
Pending == [status |-> "pending"]

\* A barrier that does not wait for the promises.
allSettledNoWait(promises) == TRUE

\* await Promise.allSettled(promises) has returned: every promise settled.
allSettled(promises) == \A j \in 1..Len(promises) : promises[j] # Pending

RECURSIVE Flat(_)
\* Array.prototype.flat() over the fulfilled search promises.
Flat(settled) ==
  IF settled = <<>> THEN <<>>
  ELSE (IF settled[1].status = "fulfilled" THEN settled[1].value ELSE <<>>)
       \o Flat(Tail(settled))

\* The activities recorded when the searches of a batch are started.
SearchPending(batch) == [i \in 1..Len(batch) |-> Act("search", "pending")]

\* The activities recorded when the extractions of the results are started.
ExtractPending(results) == [i \in 1..Len(results) |-> Act("extract", "pending")]

\* The loop's decision without the iteration cap.
LoopEndsNoCap(judged, iter) ==
  \/ judged.sufficient
  \/ Len(judged.queries) = 0

\* The loop's decision when an empty query list does not end the loop.
LoopEndsIgnoresEmpty(judged, iter) ==
  \/ judged.sufficient
  \/ iter >= MAX_ITERATIONS

\* The loop's decision after the Judge returned.
LoopEnds(judged, iter) ==
  \/ judged.sufficient
  \/ iter >= MAX_ITERATIONS
  \/ Len(judged.queries) = 0

\* PLANNING: the Planner is called once; the first batch is dispatched. calls
\* is what the planning callModel may complete with.
PlanFrom(calls) ==
  /\ phase = "PLANNING"
  /\ \E called \in calls :
       LET r == generateSearchQueries(topic, called)
       IN IF r.t = "throw"
            THEN /\ phase' = "FAULT"
                 /\ stream' = stream \o r.acts
                 /\ UNCHANGED <<currentQueries, searches>>
            ELSE /\ phase' = "SEARCHING"
                 /\ currentQueries' = r.value.searchQueries
                 /\ searches' = [i \in 1..Len(r.value.searchQueries) |-> Pending]
                 /\ stream' = stream \o r.acts \o SearchPending(r.value.searchQueries)
  /\ UNCHANGED <<topic, findings, completedSteps, iteration, analysis,
                 searchResults, extractions, gw>>

Plan == PlanFrom(PlanningCalls)

\* One in-flight search settles.
SearchReturns ==
  /\ phase = "SEARCHING"
  /\ \E i \in 1..Len(searches), net \in RunNets, ont \in RunOnts :
       /\ searches[i] = Pending
       /\ LET q == currentQueries[i]
              r == search(q.query, q.source, EnvSet, net, ont)
          IN /\ searches' = [searches EXCEPT ![i] =
                               IF r.t = "throw" THEN [status |-> "rejected"]
                               ELSE [status |-> "fulfilled", value |-> r.value,
                                     reqs |-> searchRequests(q.query, q.source,
                                                             EnvSet, ont)]]
             /\ completedSteps' = completedSteps + (IF r.t = "throw" THEN 0 ELSE r.steps)
             /\ stream' = stream \o r.acts
  /\ UNCHANGED <<phase, topic, findings, iteration, currentQueries, analysis,
                 searchResults, extractions, gw>>

\* All searches settled: their results go to processSearchResults, which
\* starts one extraction per result.
StartSummaries ==
  /\ phase = "SEARCHING"
  /\ allSettled(searches)
  /\ phase' = "SUMMARIZING"
  /\ searchResults' = Flat(searches)
  /\ extractions' = [j \in 1..Len(Flat(searches)) |-> Pending]
  /\ stream' = stream \o ExtractPending(Flat(searches))
  /\ searches' = <<>>
  /\ UNCHANGED <<topic, findings, completedSteps, iteration, currentQueries,
                 analysis, gw>>

\* An extraction that appends its finding as soon as it settles, while
\* others are in flight.
ExtractReturnsAppends ==
  /\ phase = "SUMMARIZING"
  /\ \E j \in 1..Len(extractions), called \in ExtractionCalls :
       /\ extractions[j] = Pending
       /\ LET r == extractContent(searchResults[j].url, called)
          IN /\ extractions' = [extractions EXCEPT ![j] =
                                  IF r.t = "throw" THEN [status |-> "rejected"]
                                  ELSE [status |-> "fulfilled", value |-> r.value]]
             /\ findings' = findings \o
                              NewFindings(<<[status |-> "fulfilled", value |-> r.value]>>)
             /\ stream' = stream \o r.acts
  /\ UNCHANGED <<phase, topic, completedSteps, iteration, currentQueries,
                 analysis, searches, searchResults, gw>>

\* An extraction whose activity record takes the place of the record
\* written last, as with a tracker that keeps one current record.
ExtractReturnsOverwrites ==
  /\ phase = "SUMMARIZING"
  /\ \E j \in 1..Len(extractions), called \in ExtractionCalls :
       /\ extractions[j] = Pending
       /\ LET r == extractContent(searchResults[j].url, called)
          IN /\ extractions' = [extractions EXCEPT ![j] =
                                  IF r.t = "throw" THEN [status |-> "rejected"]
                                  ELSE [status |-> "fulfilled", value |-> r.value]]
             /\ stream' = SubSeq(stream, 1, Len(stream) - 1) \o r.acts
  /\ UNCHANGED <<phase, topic, findings, completedSteps, iteration, currentQueries,
                 analysis, searches, searchResults, gw>>

\* One in-flight extraction settles.
ExtractReturns ==
  /\ phase = "SUMMARIZING"
  /\ \E j \in 1..Len(extractions), called \in ExtractionCalls :
       /\ extractions[j] = Pending
       /\ LET r == extractContent(searchResults[j].url, called)
          IN /\ extractions' = [extractions EXCEPT ![j] =
                                  IF r.t = "throw" THEN [status |-> "rejected"]
                                  ELSE [status |-> "fulfilled", value |-> r.value]]
             /\ stream' = stream \o r.acts
  /\ UNCHANGED <<phase, topic, findings, completedSteps, iteration, currentQueries,
                 analysis, searches, searchResults, gw>>

\* The loop keeping only the findings of the latest iteration.
StartAnalysisKeepsLatest ==
  /\ phase = "SUMMARIZING"
  /\ allSettled(extractions)
  /\ phase' = "ANALYZING"
  /\ findings' = NewFindings(extractions)
  /\ stream' = stream \o <<Act("analyze", "pending")>>
  /\ searchResults' = <<>>
  /\ extractions' = <<>>
  /\ UNCHANGED <<topic, completedSteps, iteration, currentQueries, analysis,
                 searches, gw>>

\* All extractions settled: the new findings are appended and the Judge is
\* called.
StartAnalysis ==
  /\ phase = "SUMMARIZING"
  /\ allSettled(extractions)
  /\ phase' = "ANALYZING"
  /\ findings' = findings \o NewFindings(extractions)
  /\ stream' = stream \o <<Act("analyze", "pending")>>
  /\ searchResults' = <<>>
  /\ extractions' = <<>>
  /\ UNCHANGED <<topic, completedSteps, iteration, currentQueries, analysis,
                 searches, gw>>

\* The loop going back to the Planner when the Judge asks for more.
JudgeReturnsReplans(calls) ==
  /\ phase = "ANALYZING"
  /\ \E called \in calls :
       LET r == analyzeFindings(called)
       IN IF r.t = "throw"
            THEN /\ phase' = "FAULT"
                 /\ stream' = stream
                 /\ UNCHANGED <<iteration, currentQueries, analysis, searches>>
          ELSE IF LoopEnds(r.value, iteration)
            THEN /\ phase' = "REPORTING"
                 /\ analysis' = r.value
                 /\ stream' = stream \o r.acts
                 /\ UNCHANGED <<iteration, currentQueries, searches>>
          ELSE /\ phase' = "PLANNING"
               /\ analysis' = r.value
               /\ iteration' = iteration + 1
               /\ stream' = stream \o r.acts
               /\ UNCHANGED <<currentQueries, searches>>
  /\ UNCHANGED <<topic, findings, completedSteps, searchResults, extractions, gw>>

\* The Judge returned: stop, or go round again with its queries. calls is
\* what the analysis callModel may complete with.
JudgeReturnsFrom(calls) ==
  /\ phase = "ANALYZING"
  /\ \E called \in calls :
       LET r == analyzeFindings(called)
       IN IF r.t = "throw"
            THEN /\ phase' = "FAULT"
                 /\ stream' = stream
                 /\ UNCHANGED <<iteration, currentQueries, analysis, searches>>
          ELSE IF LoopEnds(r.value, iteration)
            THEN /\ phase' = "REPORTING"
                 /\ analysis' = r.value
                 /\ stream' = stream \o r.acts
                 /\ UNCHANGED <<iteration, currentQueries, searches>>
          ELSE /\ phase' = "SEARCHING"
               /\ analysis' = r.value
               /\ iteration' = iteration + 1
               /\ currentQueries' = r.value.queries
               /\ searches' = [i \in 1..Len(r.value.queries) |-> Pending]
               /\ stream' = stream \o r.acts \o SearchPending(r.value.queries)
  /\ UNCHANGED <<topic, findings, completedSteps, searchResults, extractions, gw>>

JudgeReturns == JudgeReturnsFrom(AnalysisCalls)

\* REPORTING that calls the Report Compiler only when there are findings.
ReportSkipsEmpty ==
  /\ phase = "REPORTING"
  /\ \E called \in ReportCalls :
       LET r == generateReport(called)
       IN IF findings = <<>>
            THEN /\ phase' = "DONE"
                 /\ stream' = stream \o <<[type |-> "report", content |-> ""]>>
          ELSE IF r.t = "throw"
            THEN /\ phase' = "FAULT"
                 /\ stream' = stream
            ELSE /\ phase' = IF called.t = "throw" THEN "DONE_WITH_ERROR" ELSE "DONE"
                 /\ stream' = stream \o r.acts
                                \o <<[type |-> "report", content |-> r.value]>>
  /\ UNCHANGED <<topic, findings, completedSteps, iteration, currentQueries,
                 analysis, searches, searchResults, extractions, gw>>

\* REPORTING: the Report Compiler is called once and the terminal value is
\* emitted.
Report ==
  /\ phase = "REPORTING"
  /\ \E called \in ReportCalls :
       LET r == generateReport(called)
       IN IF r.t = "throw"
            THEN /\ phase' = "FAULT"
                 /\ stream' = stream
            ELSE /\ phase' = IF called.t = "throw" THEN "DONE_WITH_ERROR" ELSE "DONE"
                 /\ stream' = stream \o r.acts
                                \o <<[type |-> "report", content |-> r.value]>>
  /\ UNCHANGED <<topic, findings, completedSteps, iteration, currentQueries,
                 analysis, searches, searchResults, extractions, gw>>

Next == Plan \/ SearchReturns \/ StartSummaries \/ ExtractReturns \/ StartAnalysis
          \/ JudgeReturns \/ Report

Spec == Init /\ [][Next]_vars

\* The calls awaited by the run settle (each has its own timeout) and the
\* continuation then runs.
FairSpec == Spec /\ WF_vars(Next)

\* ------------------------------------------- the Search Gateway on its own

DefaultNet == [t |-> "netError", msgLen |-> 20]
DefaultOnt == CHOOSE o \in RunOnts : o.list.t = "ok"
NoOutcome == [t |-> "none", value |-> <<>>, acts |-> <<>>, steps |-> 0]

Queries == {"topic", "q1", "Please try a different search query"}

\* The inputs of one search(query, source) call.
GwInputs ==
  {[called |-> FALSE, query |-> q, source |-> "web", env |-> e, net |-> n,
    ont |-> DefaultOnt, out |-> NoOutcome, reqs |-> <<>>,
    again |-> FALSE, out2 |-> NoOutcome] :
       q \in Queries, e \in Envs, n \in Nets}
  \cup
  {[called |-> FALSE, query |-> q, source |-> "ontology", env |-> EnvSet,
    net |-> DefaultNet, ont |-> o, out |-> NoOutcome, reqs |-> <<>>,
    again |-> FALSE, out2 |-> NoOutcome] :
       q \in Queries, o \in Onts}

GwInit ==
  /\ phase = "PLANNING"
  /\ topic \in Topics
  /\ findings = <<>>
  /\ completedSteps = 0
  /\ iteration = 1
  /\ currentQueries = <<>>
  /\ analysis = NoAnalysis
  /\ searches = <<>>
  /\ searchResults = <<>>
  /\ extractions = <<>>
  /\ stream = <<>>
  /\ gw \in GwInputs

\* search(query, source) is called and returns.
GwSearch ==
  /\ ~gw.called
  /\ LET r == search(gw.query, gw.source, gw.env, gw.net, gw.ont)
     IN /\ gw' = [gw EXCEPT !.called = TRUE, !.out = r,
                             !.reqs = searchRequests(gw.query, gw.source, gw.env, gw.ont)]
        /\ completedSteps' = completedSteps + (IF r.t = "throw" THEN 0 ELSE r.steps)
  /\ UNCHANGED <<phase, topic, findings, iteration, currentQueries,
                 analysis, searches, searchResults, extractions, stream>>

\* The same search(query, source) is called once more: the backend answers
\* as before, its answers may arrive in another order.
GwSearchAgain ==
  /\ gw.called
  /\ ~gw.again
  /\ \E o \in Orders :
       LET r == search(gw.query, gw.source, gw.env, gw.net, [gw.ont EXCEPT !.order = o])
       IN /\ gw' = [gw EXCEPT !.again = TRUE, !.out2 = r]
          /\ completedSteps' = completedSteps + (IF r.t = "throw" THEN 0 ELSE r.steps)
  /\ UNCHANGED <<phase, topic, findings, iteration, currentQueries,
                 analysis, searches, searchResults, extractions, stream>>

GwNext == GwSearch \/ GwSearchAgain

GatewaySpec == GwInit /\ [][GwNext]_vars

\* ------------------------------- the entity search with options on its own

\* The options of searchOntologyObjects: a category or none, the number of
\* results asked for (the default and the one of the per-category queries),
\* the auto-discover flag.
OptionSets ==
  [objectType : {"", TypeNames[1], TypeNames[2]},
   maxResults : {3, 10},
   autoDiscover : BOOLEAN]

\* The inputs of one searchOntologyObjects(searchQuery, options) call.
CategoryInputs ==
  {[called |-> FALSE, query |-> q, options |-> op, ont |-> o, out |-> NoOutcome] :
     q \in {"topic", "q1"}, op \in OptionSets, o \in {x \in Onts : x.order = "listed"}}

CategoryInit ==
  /\ phase = "PLANNING"
  /\ topic \in Topics
  /\ findings = <<>>
  /\ completedSteps = 0
  /\ iteration = 1
  /\ currentQueries = <<>>
  /\ analysis = NoAnalysis
  /\ searches = <<>>
  /\ searchResults = <<>>
  /\ extractions = <<>>
  /\ stream = <<>>
  /\ gw \in CategoryInputs

\* searchOntologyObjects(searchQuery, options) is called and settles.
CategorySearch ==
  /\ ~gw.called
  /\ gw' = [gw EXCEPT !.called = TRUE,
                      !.out = searchOntologyObjectsWith(gw.query, gw.options, gw.ont)]
  /\ UNCHANGED <<phase, topic, findings, completedSteps, iteration, currentQueries,
                 analysis, searches, searchResults, extractions, stream>>

CategoryNext == CategorySearch

CategorySpec == CategoryInit /\ [][CategoryNext]_vars

\* ------------------------------------ the query of one category on its own

\* The inputs of one queryOntologyByType(objectType, searchQuery,
\* {ontologyRid, maxResults: 3}) call: the category, the query and what the
\* backend does for the category.
TypeQueryInputs ==
  {[called |-> FALSE, type |-> n, query |-> q, tb |-> b, out |-> NoOutcome,
    reqs |-> <<>>] :
     n \in {TypeNames[i] : i \in 1..Len(TypeNames)}, q \in Queries, b \in TypeBackends}

TypeQueryInit ==
  /\ phase = "PLANNING"
  /\ topic \in Topics
  /\ findings = <<>>
  /\ completedSteps = 0
  /\ iteration = 1
  /\ currentQueries = <<>>
  /\ analysis = NoAnalysis
  /\ searches = <<>>
  /\ searchResults = <<>>
  /\ extractions = <<>>
  /\ stream = <<>>
  /\ gw \in TypeQueryInputs

\* queryOntologyByType is called and settles.
TypeQuery ==
  /\ ~gw.called
  /\ gw' = [gw EXCEPT !.called = TRUE,
                      !.out = queryOntologyByType(gw.type, gw.tb),
                      !.reqs = queryOntologyByTypeRequests(gw.type, gw.query, gw.tb)]
  /\ UNCHANGED <<phase, topic, findings, completedSteps, iteration, currentQueries,
                 analysis, searches, searchResults, extractions, stream>>

TypeQueryNext == TypeQuery

TypeQuerySpec == TypeQueryInit /\ [][TypeQueryNext]_vars

\* ------------------------------------- the dispatch of a batch on its own

\* Every array of {query, source} objects of up to MaxAnswer elements: the
\* values the searchQueries / queries schema accepts.
SchemaBatches ==
  {[i \in 1..n |-> [query |-> "q1", source |-> f[i]]] :
     n \in 0..MaxAnswer, f \in [1..MaxAnswer -> Sources]}

SchemaPlanningCalls ==
  {Thrown} \cup {[t |-> "ok", value |-> [searchQueries |-> b]] : b \in SchemaBatches}

SchemaAnalysisCalls ==
  {Thrown}
    \cup {[t |-> "ok", value |-> [sufficient |-> f, gaps |-> <<>>, queries |-> b]] :
            f \in BOOLEAN, b \in SchemaBatches}

\* The run is about to call the Planner, or is about to hear from the Judge
\* of the first iteration after a batch without any query.
DispatchInit ==
  /\ phase \in {"PLANNING", "ANALYZING"}
  /\ topic \in Topics
  /\ findings = <<>>
  /\ completedSteps = 0
  /\ iteration = 1
  /\ currentQueries = <<>>
  /\ analysis = NoAnalysis
  /\ searches = <<>>
  /\ searchResults = <<>>
  /\ extractions = <<>>
  /\ stream = IF phase = "PLANNING" THEN <<>>
              ELSE <<Act("planning", "pending"), Act("planning", "complete"),
                     Act("analyze", "pending")>>
  /\ gw = GwIdle

DispatchNext == PlanFrom(SchemaPlanningCalls) \/ JudgeReturnsFrom(SchemaAnalysisCalls)

DispatchSpec == DispatchInit /\ [][DispatchNext]_vars

\* ------------------------------------------------------------ properties

\* How many activities of this category and status the run has emitted.
CountActs(category, status) ==
  Cardinality({k \in 1..Len(stream) :
                 /\ stream[k].type = "activity"
                 /\ stream[k].category = category
                 /\ stream[k].status = status})

\* The step just taken appended this activity right after the old stream.
Appended(category, status) ==
  /\ Len(stream') > Len(stream)
  /\ stream'[Len(stream) + 1] = Act(category, status)

Ended == {"DONE", "DONE_WITH_ERROR"}

\* C1: every run reaches REPORTING, and the loop body (one Judge call per
\* execution) runs at most MAX_ITERATIONS times, whatever fails.
C1_ReachesReporting ==
  /\ <>(phase = "REPORTING")
  /\ [](CountActs("analyze", "pending") <= MAX_ITERATIONS)

\* C1 witness: REPORTING is reached at the cap after every summarization and
\* every Judge call failed in every iteration.
C1_Witness ==
  /\ phase = "REPORTING"
  /\ iteration = MAX_ITERATIONS
  /\ CountActs("analyze", "error") = MAX_ITERATIONS
  /\ CountActs("analyze", "complete") = 0
  /\ CountActs("extract", "error") = MAX_ITERATIONS
  /\ CountActs("extract", "complete") = 0
  /\ findings = <<>>

\* C2: the iteration counter never exceeds MAX_ITERATIONS, never decreases,
\* and each repetition of the loop body raises it by exactly one.
C2_IterationBounded ==
  /\ [](iteration <= MAX_ITERATIONS)
  /\ [][/\ iteration' >= iteration
        /\ (phase = "ANALYZING" /\ phase' = "SEARCHING") <=> (iteration' = iteration + 1)
        /\ iteration' # iteration => iteration' = iteration + 1]_vars

\* C2 witness: the loop body has been repeated up to the cap.
C2_Witness == phase = "SEARCHING" /\ iteration = MAX_ITERATIONS /\ MAX_ITERATIONS > 1

\* C3: when the Judge returns, the loop moves to REPORTING exactly if the
\* Judge said sufficient, or the iteration count has reached the maximum, or
\* the Judge returned no query; otherwise iteration is incremented, the
\* Judge's queries become the next batch and the loop goes on.
C3_JudgeTransition ==
  [][phase = "ANALYZING" /\ phase' # "ANALYZING" =>
       /\ (phase' = "REPORTING") <=>
            (analysis'.sufficient \/ iteration >= MAX_ITERATIONS
               \/ Len(analysis'.queries) = 0)
       /\ phase' = "REPORTING" => iteration' = iteration
       /\ phase' # "REPORTING" =>
            /\ phase' = "SEARCHING"
            /\ iteration' = iteration + 1
            /\ currentQueries' = analysis'.queries
            /\ Len(searches') = Len(analysis'.queries)]_vars

\* C3 witness: the loop went on with the Judge's queries (a real verdict, not
\* the failure fallback) ...
C3_Witness ==
  /\ phase = "SEARCHING"
  /\ iteration = 2
  /\ ~analysis.sufficient
  /\ analysis.gaps = <<>>
  /\ Len(analysis.queries) = MaxBatch
  /\ currentQueries = analysis.queries

\* C4: the run never faults; it emits no terminal value before it ends, and
\* when it has ended the stream is its activities followed by exactly one
\* terminal value, the report or the error string; and every run ends.
C4_StreamShape ==
  /\ phase # "FAULT"
  /\ phase \notin Ended => \A k \in 1..Len(stream) : stream[k].type = "activity"
  /\ phase \in Ended =>
       /\ Len(stream) > 1
       /\ \A k \in 1..(Len(stream) - 1) : stream[k].type = "activity"
       /\ stream[Len(stream)].type = "report"
       /\ phase = "DONE" => stream[Len(stream)].content = "report"
       /\ phase = "DONE_WITH_ERROR" =>
            stream[Len(stream)].content = "Error generating report. Please try again. "

C4_OneTerminalOutcome ==
  /\ []C4_StreamShape
  /\ <>(phase \in Ended)
  /\ [][(phase \in Ended) => (stream' = stream)]_vars

\* C4 witness: a run in which the planner, every summarization, every Judge
\* call and the report call failed has ended with the error string.
C4_Witness ==
  /\ phase = "DONE_WITH_ERROR"
  /\ CountActs("planning", "error") = 1
  /\ CountActs("analyze", "error") = MAX_ITERATIONS
  /\ CountActs("extract", "complete") = 0
  /\ CountActs("generate", "error") = 1

\* C5: the content of every SearchResult returned by search(query, source)
\* has at most MaxContent characters, on every return path.
C5_ContentBounded ==
  gw.called =>
    \A k \in 1..Len(gw.out.value) : gw.out.value[k].content.len <= MaxContent

\* The backend call of the gateway failed: missing configuration, a network
\* or HTTP error, or a response that is not JSON (web); missing
\* configuration or a failed category discovery (entity).
GwBackendFailed ==
  IF gw.source = "web"
    THEN \/ ~gw.env.token
         \/ ~gw.env.apiName
         \/ gw.net.t # "ok"
         \/ (gw.net.body.wrap # "object" /\ ~gw.net.body.valueIsJson)
    ELSE \/ ~gw.ont.rid
         \/ gw.ont.list.t = "throw"

\* The contents that describe a failure.
ErrorKinds == {"callFailed", "ontologyError", "notConfigured"}

Outcomes(p) ==
  IF p.status # "fulfilled" THEN 0
  ELSE IF p.value = <<>> THEN 1
  ELSE Len(p.value)

\* C7: when the barrier of an iteration completes, every dispatched query
\* has exactly one outcome, and every search started has recorded how it
\* ended.
C7_OneOutcomePerQuery ==
  [][phase = "SEARCHING" /\ phase' = "SUMMARIZING" =>
       /\ Len(searches) = Len(currentQueries)
       /\ \A i \in 1..Len(currentQueries) : Outcomes(searches[i]) = 1
       /\ Len(searchResults') <= Len(currentQueries)
       /\ CountActs("search", "pending") =
            CountActs("search", "complete") + CountActs("search", "error")]_vars

\* C7 witness: the barrier completed for a batch of MaxBatch queries, each
\* with its result.
C7_Witness ==
  /\ phase = "SUMMARIZING"
  /\ Len(currentQueries) = MaxBatch
  /\ Len(searchResults) = MaxBatch
  /\ searchResults[1].url # searchResults[2].url

\* The query batch the planner falls back to.
TopicQuery == <<[query |-> topic, source |-> "web"]>>

\* C8: when the planner's call fails, the first batch is the one web query
\* whose text is the topic, and the run goes on into the loop.
C8_PlannerFallback ==
  [][(/\ phase = "PLANNING"
      /\ phase' # "PLANNING"
      /\ Len(stream') >= 2
      /\ stream'[2] = Act("planning", "error")) =>
       /\ phase' = "SEARCHING"
       /\ iteration' = 1
       /\ currentQueries' = TopicQuery
       /\ searches' = <<Pending>>]_vars

\* C8 witness: after a planner failure the topic query was searched.
C8_Witness ==
  /\ phase = "SUMMARIZING"
  /\ iteration = 1
  /\ CountActs("planning", "error") = 1
  /\ Len(searchResults) = 1

\* The Judge's fallback query batch.
FallbackQuery == <<[query |-> "Please try a different search query", source |-> "web"]>>

\* C9: when the Judge's call fails, the Judge returns sufficient = FALSE with
\* the one fallback web query; below the cap the loop then runs one more
\* iteration with that query, at the cap it moves to REPORTING.
C9_JudgeFallback ==
  [][(phase = "ANALYZING" /\ Appended("analyze", "error")) =>
       /\ ~analysis'.sufficient
       /\ analysis'.queries = FallbackQuery
       /\ iteration < MAX_ITERATIONS =>
            /\ phase' = "SEARCHING"
            /\ iteration' = iteration + 1
            /\ currentQueries' = FallbackQuery
            /\ searches' = <<Pending>>
       /\ iteration >= MAX_ITERATIONS =>
            /\ phase' = "REPORTING"
            /\ iteration' = iteration]_vars

\* C9 witness: after a Judge failure the fallback query was searched in the
\* next iteration.
C9_Witness ==
  /\ phase = "SUMMARIZING"
  /\ iteration = 2
  /\ analysis.gaps = <<"Unable to analyze content">>
  /\ currentQueries = FallbackQuery
  /\ Len(searchResults) = 1

\* Every extraction of this iteration has settled, and with an error.
AllExtractionsFailed ==
  /\ Len(extractions) > 0
  /\ Len(stream) >= Len(extractions)
  /\ \A k \in (Len(stream) - Len(extractions) + 1)..Len(stream) :
       stream[k] = Act("extract", "error")

\* C10: when every summarization of an iteration failed, findings is left
\* as it was and the Judge is called.
C10_AllSummariesFail ==
  [][(phase = "SUMMARIZING" /\ phase' # "SUMMARIZING" /\ AllExtractionsFailed) =>
       /\ findings' = findings
       /\ phase' = "ANALYZING"
       /\ Appended("analyze", "pending")]_vars

\* C10 witness: in the second iteration both summarizations failed and the
\* Judge was called with the findings of the first iteration.
C10_Witness ==
  /\ phase = "ANALYZING"
  /\ iteration = 2
  /\ Len(currentQueries) = 2
  /\ Len(findings) = 1
  /\ CountActs("extract", "error") = 2
  /\ CountActs("extract", "complete") = 1

\* The run stopped at the iteration cap: the Judge did not say sufficient and
\* still asked for more queries.
StoppedAtCap ==
  /\ iteration = MAX_ITERATIONS
  /\ ~analysis.sufficient
  /\ Len(analysis.queries) > 0

\* C11: the Report Compiler is invoked exactly once per run and only after
\* the loop has ended (leaving REPORTING), also when the loop stopped at the
\* iteration cap without sufficiency and with empty findings.
C11_ReportOnce ==
  /\ [](CountActs("generate", "pending") = IF phase \in Ended THEN 1 ELSE 0)
  /\ [][(CountActs("generate", "pending")' # CountActs("generate", "pending")) =>
          (phase = "REPORTING" /\ phase' \in Ended)]_vars
  /\ (phase = "REPORTING" /\ StoppedAtCap /\ findings = <<>>)
       ~> (CountActs("generate", "pending") = 1)

\* C11 witness: the Report Compiler was invoked once after the loop stopped
\* at the cap without sufficiency and without any finding.
C11_Witness ==
  /\ phase \in Ended
  /\ StoppedAtCap
  /\ findings = <<>>
  /\ CountActs("generate", "pending") = 1
  /\ CountActs("analyze", "pending") = MAX_ITERATIONS

\* The text generateReport returns when its call failed.
ReportErrorText == "Error generating report. Please try again. "

\* C12: when the report call fails, generateReport does not raise; the error
\* text is the run's terminal value, the run ends in DONE_WITH_ERROR, and the
\* report call is not made again.
C12_ReportFailure ==
  /\ [][phase = "REPORTING" /\ phase' # "REPORTING" =>
          /\ phase' \in Ended
          /\ (phase' = "DONE_WITH_ERROR") <=> (CountActs("generate", "error")' = 1)
          /\ phase' = "DONE_WITH_ERROR" =>
               /\ stream'[Len(stream')] = [type |-> "report", content |-> ReportErrorText]
               /\ CountActs("generate", "complete")' = 0]_vars
  /\ [][phase = "DONE_WITH_ERROR" =>
          (phase' = phase /\ stream' = stream)]_vars
  /\ [](CountActs("generate", "pending") <= 1)

\* C12 witness: a run whose searches and Judge calls went well ended with the
\* error text because the report call failed.
C12_Witness ==
  /\ phase = "DONE_WITH_ERROR"
  /\ Len(findings) > 0
  /\ analysis.sufficient
  /\ CountActs("generate", "error") = 1
  /\ stream[Len(stream)].content = ReportErrorText

\* C13: findings is append-only: at every step the old sequence is a prefix
\* of the new one, so the findings of an iteration stay in front of those of
\* the next; it grows only when the summarizations of an iteration are in.
C13_FindingsAppendOnly ==
  [][/\ Len(findings') >= Len(findings)
     /\ SubSeq(findings', 1, Len(findings)) = findings
     /\ findings' # findings => (phase = "SUMMARIZING" /\ phase' = "ANALYZING")]_vars

\* C13 witness: the finding of iteration 1 (from the entity source) stands in
\* front of the finding of iteration 2 (from the web source).
C13_Witness ==
  /\ phase = "ANALYZING"
  /\ iteration = 2
  /\ Len(currentQueries) = 1
  /\ Len(findings) = 2
  /\ findings[1].source = "Foundry"
  /\ findings[2].source = "Firecrawl"

\* C14: the Judge is invoked only when every search and every summarization
\* dispatched so far has recorded how it ended and none is in flight, and
\* findings then holds one Finding per successful summarization of all
\* iterations so far.
C14_JudgeAfterBarrier ==
  /\ [](phase = "ANALYZING" =>
          /\ searches = <<>>
          /\ extractions = <<>>
          /\ CountActs("search", "pending") =
               CountActs("search", "complete") + CountActs("search", "error")
          /\ CountActs("extract", "pending") =
               CountActs("extract", "complete") + CountActs("extract", "error")
          /\ Len(findings) = CountActs("extract", "complete")
          /\ CountActs("analyze", "pending") = iteration)
  /\ [][Appended("analyze", "pending") =>
          /\ phase = "SUMMARIZING"
          /\ \A j \in 1..Len(extractions) : extractions[j].status \in {"fulfilled", "rejected"}
          /\ Len(findings') = CountActs("extract", "complete")]_vars

\* C14 witness: the Judge of iteration 2 was called after both searches and
\* both summarizations of that iteration had ended, one summarization with a
\* failure, and sees the findings of both iterations.
C14_Witness ==
  /\ phase = "ANALYZING"
  /\ iteration = 2
  /\ Len(currentQueries) = 2
  /\ CountActs("analyze", "pending") = 2
  /\ CountActs("extract", "error") = 1
  /\ Len(findings) = 2

\* The entity backend is configured and its category discovery answered
\* with an empty list.
GwNoCategories ==
  /\ gw.source = "ontology"
  /\ gw.ont.rid
  /\ gw.ont.list.t = "ok"
  /\ Len(gw.ont.list.types) = 0

\* The content is the ordinary results document of an entity search, the one
\* a search that found categories but no match returns as well.
OrdinaryResults(content) == content.kind = "ontology"

\* C15: when discovery finds no category, search returns normally one result
\* with totalCount 0 whose content is marked as "no categories" and is not
\* the ordinary results document.
C15_NoCategoriesMarked ==
  (gw.called /\ GwNoCategories) =>
    /\ gw.out.t = "ok"
    /\ Len(gw.out.value) = 1
    /\ ~OrdinaryResults(gw.out.value[1].content)
    /\ gw.out.value[1].content.kind = "noCategories"

\* What the code does when discovery finds no category: the ordinary
\* results document with totalCount 0, no result and no searched category.
C15_EmptyDocument ==
  (gw.called /\ GwNoCategories) =>
    /\ gw.out.t = "ok"
    /\ Len(gw.out.value) = 1
    /\ gw.out.value[1].content.kind = "ontology"
    /\ gw.out.value[1].content.totalCount = 0
    /\ gw.out.value[1].content.nResults = 0
    /\ gw.out.value[1].content.searchedTypes = <<>>

\* The entity backend is configured and its discovery lists more than five
\* categories.
GwManyCategories ==
  /\ gw.source = "ontology"
  /\ gw.ont.rid
  /\ gw.ont.list.t = "ok"
  /\ Len(gw.ont.list.types) > 5

\* How many entities the search of the k-th discovered category yields.
FoundIn(k) ==
  Len(CategoryResult(gw.ont.list.types[k],
                     gw.ont.perType[gw.ont.list.types[k]]).data)

\* C16: with more than five discovered categories, exactly the first five,
\* in discovery order, are searched, and the result holds what these five
\* yield, cut to the requested cap of 10 entries.
C16_FirstFiveCategories ==
  (gw.called /\ GwManyCategories) =>
    /\ gw.out.t = "ok"
    /\ gw.out.value[1].content.kind = "ontology"
    /\ gw.out.value[1].content.searchedTypes = SubSeq(gw.ont.list.types, 1, 5)
    /\ gw.out.value[1].content.nResults <= 10
    /\ gw.out.value[1].content.nResults =
         Min(10, FoundIn(1) + FoundIn(2) + FoundIn(3) + FoundIn(4) + FoundIn(5))

\* C16 witness: six categories were discovered, each of the first five
\* yields three entities, and the result holds ten.
C16_Witness ==
  /\ gw.called
  /\ GwManyCategories
  /\ Len(gw.ont.list.types) = 6
  /\ \A k \in 1..5 : FoundIn(k) = 3
  /\ gw.out.value[1].content.searchedTypes = <<"A", "B", "C", "D", "E">>
  /\ gw.out.value[1].content.nResults = 10

\* C17: a search call raises completedSteps by one when the search
\* succeeded and leaves it as it was when the backend call failed.
C17_StepsOnlyOnSuccess ==
  [][(~gw.called /\ gw'.called) =>
       completedSteps' = completedSteps + (IF GwBackendFailed THEN 0 ELSE 1)]_vars

\* What the code does: every search call that returns raises completedSteps
\* by one, also when the backend call failed and the content describes the
\* failure.
C17_StepsOnEveryReturn ==
  [][(~gw.called /\ gw'.called) =>
       /\ completedSteps' = completedSteps + 1
       /\ gw'.out.acts = <<Act("search", "complete")>>]_vars

\* C18: every batch handed to the Search Gateway, from the Planner or from
\* the Judge, has at most 5 queries, each tagged web or ontology.
C18_BatchAtMostFive ==
  phase = "SEARCHING" =>
    /\ Len(currentQueries) <= 5
    /\ Len(searches) <= 5
    /\ \A i \in 1..Len(currentQueries) : currentQueries[i].source \in Sources

\* What the code does: the batch handed on is the array the generation call
\* answered with, whatever its length; only the tags are constrained.
C18_BatchAsAnswered ==
  phase = "SEARCHING" =>
    /\ Len(searches) = Len(currentQueries)
    /\ \A i \in 1..Len(currentQueries) : currentQueries[i].source \in Sources

\* C19: when the Judge's call fails at iteration MAX_ITERATIONS - 1 or
\* later, the Judge's outcome is sufficient = TRUE, and the run moves to
\* REPORTING through the sufficient branch, not through the iteration cap.
C19_NearCapSufficient ==
  [][(/\ phase = "ANALYZING"
      /\ iteration >= MAX_ITERATIONS - 1
      /\ Appended("analyze", "error")) =>
       /\ analysis'.sufficient
       /\ phase' = "REPORTING"]_vars

\* What the code does: the outcome of a failed Judge call is the same at
\* every iteration, sufficient = FALSE, so that REPORTING is reached from it
\* only through the iteration cap.
C19_FallbackNeverSufficient ==
  [][(phase = "ANALYZING" /\ Appended("analyze", "error")) =>
       /\ ~analysis'.sufficient
       /\ (phase' = "REPORTING") <=> (iteration >= MAX_ITERATIONS)]_vars

\* A setting the backend of this search needs is absent: the token or the
\* ontology API name (web), the ontology RID (entity).
GwNotConfigured ==
  IF gw.source = "web" THEN ~gw.env.token \/ ~gw.env.apiName
  ELSE ~gw.ont.rid

\* The text returned for an absent setting: for the web source the error
\* document whose message names the setting that is required, for the
\* entity source the "[INTERNAL DATA - Not Configured]" text.
PlaceholderFor(g) ==
  IF g.source = "web"
    THEN [kind |-> "callFailed",
          len |-> 64 + (IF ~g.env.token THEN 46 ELSE 58) + StrLen(g.query)]
    ELSE [kind |-> "notConfigured", len |-> 145]

C20_EntityPlaceholder ==
  /\ gw.called
  /\ gw.source = "ontology"
  /\ ~gw.ont.rid
  /\ gw.out.value[1].content.kind = "notConfigured"

\* The sources of the results a search returned.
ResultUrls == {gw.out.value[k].url : k \in 1..Len(gw.out.value)}

\* The backends a search sent requests to.
BackendsAsked == {gw.reqs[k].backend : k \in 1..Len(gw.reqs)}

\* The backend named by the source of the search is configured.
GwConfigured ==
  IF gw.source = "web" THEN gw.env.token /\ gw.env.apiName ELSE gw.ont.rid

PhaseOrder ==
  {<<"PLANNING", "SEARCHING">>, <<"PLANNING", "REPORTING">>,
   <<"SEARCHING", "SUMMARIZING">>, <<"SUMMARIZING", "ANALYZING">>,
   <<"ANALYZING", "SEARCHING">>, <<"ANALYZING", "REPORTING">>,
   <<"REPORTING", "DONE">>, <<"REPORTING", "DONE_WITH_ERROR">>}

\* C22: the Planner is called exactly once, before any search; the batch of
\* every later iteration is the queries of the Judge's last output; and the
\* phases follow PLANNING, rounds of SEARCHING, SUMMARIZING, ANALYZING, then
\* REPORTING, then the end.
C22_PhaseOrder ==
  /\ [](CountActs("planning", "pending") = IF phase = "PLANNING" THEN 0 ELSE 1)
  /\ [](phase = "PLANNING" => CountActs("search", "pending") = 0)
  /\ []((phase \in {"SEARCHING", "SUMMARIZING", "ANALYZING"} /\ iteration > 1) =>
          currentQueries = analysis.queries)
  /\ [][/\ phase' # phase => <<phase, phase'>> \in PhaseOrder
        /\ currentQueries' # currentQueries =>
             \/ phase = "PLANNING"
             \/ (phase = "ANALYZING" /\ currentQueries' = analysis'.queries)]_vars

\* C22 witness: a run of two rounds has ended with the report; the Planner
\* was called once and the second batch was the Judge's.
C22_Witness ==
  /\ phase = "DONE"
  /\ iteration = 2
  /\ CountActs("planning", "complete") = 1
  /\ CountActs("analyze", "complete") = 2
  /\ CountActs("search", "pending") = 3
  /\ Len(currentQueries) = 2

\* C23: every request a search sends to the web backend carries a batch of
\* exactly one query, the text of the query being searched.
C23_WebBatchOfOne ==
  gw.called =>
    /\ \A k \in 1..Len(gw.reqs) :
         gw.reqs[k].backend = "web" =>
           (Len(gw.reqs[k].queries) = 1 /\ gw.reqs[k].queries[1] = gw.query)
    /\ (gw.source = "web" /\ GwConfigured) => Len(gw.reqs) > 0

\* C23 witness: the web search of the Judge's fallback query sent that text
\* alone.
C23_Witness ==
  /\ gw.called
  /\ gw.source = "web"
  /\ gw.query = "Please try a different search query"
  /\ gw.net.t = "ok"
  /\ gw.reqs = <<Req("web", "execute", "", <<"Please try a different search query">>)>>

\* The web backend call or the category discovery of this search failed
\* after its request was sent.
GwRequestFailed ==
  /\ GwConfigured
  /\ IF gw.source = "web" THEN gw.net.t # "ok" ELSE gw.ont.list.t = "throw"

\* C24: within one search call no request is sent twice, and a request that
\* failed is not sent again: a failed web call or a failed discovery leaves
\* exactly the one request, and each category gets at most one schema
\* request and one search request.
C24_NoResubmission ==
  gw.called =>
    /\ \A i, j \in 1..Len(gw.reqs) : i # j => gw.reqs[i] # gw.reqs[j]
    /\ GwRequestFailed => Len(gw.reqs) = 1
    /\ gw.source = "web" => Len(gw.reqs) <= 1

\* C24 witness: a web search whose backend answered with an HTTP error sent
\* its request once and returned the error description.
C24_Witness ==
  /\ gw.called
  /\ gw.source = "web"
  /\ gw.net.t = "httpError"
  /\ Len(gw.reqs) = 1
  /\ gw.out.value[1].content.kind = "callFailed"

\* An entity search in which the search of every category failed sent each
\* of its requests once.
C24_EntityFailures ==
  /\ gw.called
  /\ gw.source = "ontology"
  /\ Len(gw.reqs) = 5
  /\ gw.out.value[1].content.totalCount = 0
  /\ gw.ont.perType["A"].search.t = "throw"
  /\ gw.ont.perType["B"].search.t = "throw"

\* A step taken while the searches or the summarizations of an iteration
\* are in flight: one of them settles, the barrier is still closed.
InFlightStep ==
  /\ phase \in {"SEARCHING", "SUMMARIZING"}
  /\ phase' = phase

\* How many promises of the list have settled.
Settled(promises) ==
  Cardinality({k \in 1..Len(promises) : promises[k] # Pending})

\* C25 as stated: while searches and summarizations are in flight no field
\* of ResearchState is written, findings included, which is written only
\* after the barrier.
C25_NoWriteInFlight ==
  [][InFlightStep =>
       /\ topic' = topic
       /\ completedSteps' = completedSteps
       /\ findings' = findings]_vars

\* C25 amended: while searches and summarizations are in flight the only
\* field of ResearchState written is completedSteps, raised by one by each
\* search as it returns, in one step, so that no increment is lost;
\* findings is written only by the step after the summarization barrier.
C25_OnlyStepsInFlight ==
  /\ [][InFlightStep =>
          /\ topic' = topic
          /\ findings' = findings
          /\ completedSteps' # completedSteps =>
               /\ phase = "SEARCHING"
               /\ completedSteps' = completedSteps + 1
               /\ Settled(searches') = Settled(searches) + 1]_vars
  /\ [][findings' # findings =>
          (phase = "SUMMARIZING" /\ phase' = "ANALYZING"
             /\ Settled(extractions) = Len(extractions))]_vars
  /\ [](completedSteps = CountActs("search", "complete"))

\* C25 witness: of two searches in flight one has returned and raised
\* completedSteps while the other is still pending.
C25_Witness ==
  /\ phase = "SEARCHING"
  /\ Len(searches) = 2
  /\ Settled(searches) = 1
  /\ completedSteps = 1

C26_WebCut ==
  /\ gw.again
  /\ gw.source = "web"
  /\ gw.out.value[1].content.kind = "success"
  /\ gw.out.value[1].content.len = MaxContent
  /\ gw.out2.value[1].content.len = MaxContent

\* The entity backend is configured, discovery lists categories, and the
\* search of every searched category yields no entity.
GwNoMatches ==
  /\ gw.source = "ontology"
  /\ gw.ont.rid
  /\ gw.ont.list.t = "ok"
  /\ Len(gw.ont.list.types) > 0
  /\ \A k \in 1..Min(Len(gw.ont.list.types), 5) : FoundIn(k) = 0

\* C27: an entity search that matches nothing returns normally the results
\* document with totalCount 0, no result and the categories that were
\* searched, and the search is recorded as complete, not as an error.
C27_NoMatchesIsNormal ==
  (gw.called /\ GwNoMatches) =>
    /\ gw.out.t = "ok"
    /\ Len(gw.out.value) = 1
    /\ gw.out.value[1].content.kind = "ontology"
    /\ gw.out.value[1].content.totalCount = 0
    /\ gw.out.value[1].content.nResults = 0
    /\ gw.out.value[1].content.searchedTypes = Take(gw.ont.list.types, 5)
    /\ gw.out.acts = <<Act("search", "complete")>>

\* C27 witness: two categories were searched, both searches answered
\* without a match, and the result names both categories.
C27_Witness ==
  /\ gw.called
  /\ GwNoMatches
  /\ gw.ont.list.types = <<"A", "B">>
  /\ \A n \in {"A", "B"} :
       /\ gw.ont.perType[n].schema = "ok"
       /\ gw.ont.perType[n].stringFields > 0
       /\ gw.ont.perType[n].search.t = "ok"
  /\ gw.out.value[1].content.searchedTypes = <<"A", "B">>
  /\ gw.out.value[1].content.totalCount = 0

\* The results whose summarization succeeded.
Summarized ==
  {j \in 1..Len(extractions) :
     extractions[j].status = "fulfilled" /\ extractions[j].value # Null}

\* The k-th of them, in the order of the results.
NthSummarized(k) ==
  CHOOSE j \in Summarized : Cardinality({i \in Summarized : i <= j}) = k

\* C28: when the summarizations of n results have all settled,
\* processSearchResults does not raise and hands back exactly one Finding
\* per result whose summarization succeeded, in the order of the results,
\* with that summary and the url label of that result as source, and none
\* for a result whose summarization failed.
C28_OneFindingPerSummary ==
  [][(phase = "SUMMARIZING" /\ phase' # "SUMMARIZING") =>
       /\ phase' = "ANALYZING"
       /\ Len(extractions) = Len(searchResults)
       /\ Len(findings') = Len(findings) + Cardinality(Summarized)
       /\ \A k \in 1..Cardinality(Summarized) :
            /\ findings'[Len(findings) + k].source = searchResults[NthSummarized(k)].url
            /\ findings'[Len(findings) + k].summary =
                 extractions[NthSummarized(k)].value.summary]_vars

\* C28 witness: of the two results of the first iteration the web one
\* failed to be summarized and the entity one gave the only Finding.
C28_Witness ==
  /\ phase = "ANALYZING"
  /\ iteration = 1
  /\ Len(currentQueries) = 2
  /\ currentQueries[1].source = "web"
  /\ CountActs("extract", "pending") = 2
  /\ CountActs("extract", "error") = 1
  /\ findings = <<[summary |-> "summary", source |-> "Foundry"]>>

\* The requests of a settled search all go to the backend named by source
\* and those that carry a query text carry exactly this text; at least one
\* does.
SentAsIs(reqs, q) ==
  /\ \A k \in 1..Len(reqs) :
       /\ reqs[k].backend = q.source
       /\ reqs[k].queries \in {<<>>, <<q.query>>}
  /\ reqs # <<>>

\* C29: the queries dispatched in an iteration after the first are the
\* follow-up queries the Judge gave in the iteration before, one search
\* each, and every such search that settles has sent its requests to the
\* backend its source names only, with the text of the query unchanged, and
\* labels its result with that backend.
C29_FollowUpsDispatchedAsIs ==
  [][(phase = "SEARCHING" /\ iteration >= 2) =>
       /\ currentQueries = analysis.queries
       /\ Len(searches) = Len(analysis.queries)
       /\ \A i \in 1..Len(searches) :
            (searches[i] = Pending /\ searches'[i] # Pending
               /\ searches'[i].status = "fulfilled") =>
              /\ SentAsIs(searches'[i].reqs, analysis.queries[i])
              /\ \A k \in 1..Len(searches'[i].value) :
                   searches'[i].value[k].url =
                     (IF analysis.queries[i].source = "web" THEN "Firecrawl"
                      ELSE "Foundry")]_vars

\* C29 witness: the entity follow-up query of the Judge has been searched in
\* the second iteration, its text sent to a category of the entity backend.
C29_Witness ==
  /\ phase = "SEARCHING"
  /\ iteration = 2
  /\ analysis.queries = <<[query |-> "q2", source |-> "ontology"]>>
  /\ searches[1] # Pending
  /\ searches[1].status = "fulfilled"
  /\ \E k \in 1..Len(searches[1].reqs) :
       searches[1].reqs[k] = Req("ontology", "search", "A", <<"q2">>)

\* The requests of the settled entity search that are not the search of
\* the category it was given.
OtherRequests ==
  {k \in 1..Len(gw.out.reqs) :
     gw.out.reqs[k] # Req("ontology", "search", gw.options.objectType, <<gw.query>>)}

\* C30: a searchOntologyObjects call that was given a category sends no
\* request but the search of that category, at most once, so no category
\* discovery, no schema fetch and no search of another category, whatever
\* autoDiscover is; when the backend is configured it hands back what that
\* search gave, the empty answer included, or fails with its error.
C30_ExplicitCategoryOnly ==
  (gw.called /\ gw.options.objectType # "") =>
    /\ OtherRequests = {}
    /\ Len(gw.out.reqs) <= 1
    /\ gw.ont.rid =>
         LET found == gw.ont.perType[gw.options.objectType].search
         IN /\ Len(gw.out.reqs) = 1
            /\ gw.out.t = found.t
            /\ found.t = "ok" =>
                 gw.out.value = Page(found.value, gw.options.maxResults)

\* C30 witness: a search of the first category with auto-discover on found
\* nothing there, while discovery would have listed six categories and the
\* others hold matches; it sent the one request and gave the empty answer.
C30_Witness ==
  /\ gw.called
  /\ gw.options.objectType = TypeNames[1]
  /\ gw.options.autoDiscover
  /\ gw.ont.rid
  /\ gw.ont.list.t = "ok"
  /\ Len(gw.ont.list.types) = 6
  /\ gw.ont.perType[TypeNames[1]].search = [t |-> "ok", value |-> EmptyResponse]
  /\ gw.ont.perType[TypeNames[2]].search.t = "ok"
  /\ gw.ont.perType[TypeNames[2]].search.value.totalCount = 3
  /\ gw.ont.perType[TypeNames[2]].stringFields = 2
  /\ gw.out.t = "ok"
  /\ gw.out.value = EmptyResponse
  /\ gw.out.reqs = <<Req("ontology", "search", TypeNames[1], <<gw.query>>)>>

\* An auto-discover entity search of a configured backend was made and
\* discovery listed at least one category.
CatDiscovered ==
  /\ gw.called
  /\ gw.options.objectType = ""
  /\ gw.options.autoDiscover
  /\ gw.ont.rid
  /\ gw.ont.list.t = "ok"
  /\ Len(gw.ont.list.types) > 0

\* The categories that were searched.
CatSearched == Take(gw.ont.list.types, 5)

\* The search request of the category is sent and fails.
CatFails(type) ==
  /\ gw.ont.perType[type].schema = "ok"
  /\ gw.ont.perType[type].stringFields > 0
  /\ gw.ont.perType[type].search.t = "throw"

\* The search request of the category is sent and answered.
CatAnswers(type) ==
  /\ gw.ont.perType[type].schema = "ok"
  /\ gw.ont.perType[type].stringFields > 0
  /\ gw.ont.perType[type].search.t = "ok"

RECURSIVE AnsweredData(_)
\* The entities of the categories that answered, in the order of the
\* categories.
AnsweredData(types) ==
  IF types = <<>> THEN <<>>
  ELSE (IF CatAnswers(types[1])
          THEN Take(gw.ont.perType[types[1]].search.value.data, PerCategoryResults)
        ELSE <<>>)
       \o AnsweredData(Tail(types))

\* The backend with every failing category answering with no entity
\* instead.
FailuresAsEmpty ==
  [gw.ont EXCEPT !.perType =
     [n \in DOMAIN gw.ont.perType |->
        IF CatFails(n)
          THEN [gw.ont.perType[n] EXCEPT !.search = [t |-> "ok", value |-> EmptyResponse]]
          ELSE gw.ont.perType[n]]]

\* C31: in auto-discover mode the entity search returns normally whatever
\* categories fail, with the entities of the categories that answered (cut
\* to maxResults) and nothing of a failing one, and its result is the same
\* as if each failing category had answered with no entity: the failure
\* leaves no mark in it.
C31_FailingCategoriesDropped ==
  CatDiscovered =>
    /\ gw.out.t = "ok"
    /\ gw.out.value.data = Take(AnsweredData(CatSearched), gw.options.maxResults)
    /\ gw.out.value =
         searchOntologyObjects(gw.query, gw.options.maxResults, FailuresAsEmpty).value

\* C31 witness: the first of two discovered categories failed, the second
\* answered with one entity, which is the result.
C31_Witness ==
  /\ CatDiscovered
  /\ Len(gw.ont.list.types) = 2
  /\ CatFails(TypeNames[1])
  /\ CatAnswers(TypeNames[2])
  /\ gw.out.t = "ok"
  /\ gw.out.value.data = <<Entity("e1", 300)>>
  /\ gw.out.value.totalCount = 1

\* How many promises of the list are still in flight.
InFlight(promises) == Len(promises) - Settled(promises)

\* C32: the activity log only grows at its end: no step changes or drops a
\* record already written; while searches or summarizations are in flight
\* each one that settles adds exactly one record, after those of the
\* others; and every operation started has its pending record and, once
\* settled, exactly one complete or error record.
C32_ActivitiesRetained ==
  /\ [][/\ Len(stream') >= Len(stream)
        /\ SubSeq(stream', 1, Len(stream)) = stream]_vars
  /\ [][InFlightStep =>
          /\ Len(stream') = Len(stream) + 1
          /\ phase = "SEARCHING" =>
               /\ Settled(searches') = Settled(searches) + 1
               /\ stream'[Len(stream')] \in {Act("search", "complete"),
                                              Act("search", "error")}
          /\ phase = "SUMMARIZING" =>
               /\ Settled(extractions') = Settled(extractions) + 1
               /\ stream'[Len(stream')] \in {Act("extract", "complete"),
                                              Act("extract", "error")}]_vars
  /\ [](/\ CountActs("search", "pending") =
            CountActs("search", "complete") + CountActs("search", "error")
              + InFlight(searches)
        /\ CountActs("extract", "pending") =
            CountActs("extract", "complete") + CountActs("extract", "error")
              + InFlight(extractions))

\* C32 witness: two summarizations were started after two searches; one has
\* settled while the other is in flight, and the log holds the records of
\* both searches and of the settled summarization behind the two pending
\* records.
C32_Witness ==
  /\ phase = "SUMMARIZING"
  /\ Len(extractions) = 2
  /\ InFlight(extractions) = 1
  /\ CountActs("search", "pending") = 2
  /\ CountActs("search", "complete") = 2
  /\ CountActs("extract", "pending") = 2
  /\ CountActs("extract", "complete") + CountActs("extract", "error") = 1
  /\ stream[Len(stream) - 1] = Act("extract", "pending")

\* A web search was made with the backend configured and answering with a
\* payload as JSON text or as an object.
GwWebAnswered ==
  /\ gw.called
  /\ gw.source = "web"
  /\ gw.env.token
  /\ gw.env.apiName
  /\ gw.net.t = "ok"
  /\ gw.net.body.valueIsJson

\* The same payload delivered in the given form.
DeliveredAs(wrap) == [gw.net EXCEPT !.body.wrap = wrap]

GwWebException ==
  \/ ~gw.env.token
  \/ ~gw.env.apiName
  \/ gw.net.t # "ok"
  \/ ~gw.net.body.valueIsJson

\* The first entry of searchResults of the payload, when there is one, has
\* the property.
FirstSucceeded(p) ==
  /\ Len(p.searchResults) > 0
  /\ p.searchResults[1].success
  /\ p.searchResults[1].nResults > 0

FirstHasError(p) ==
  /\ Len(p.searchResults) > 0
  /\ p.searchResults[1].error > 0

\* The document the precedence picks for a parsed payload.
PickedKind(p) ==
  IF FirstSucceeded(p) THEN "success"
  ELSE IF FirstHasError(p) THEN "queryError"
  ELSE IF p.error > 0 THEN "topError"
  ELSE "raw"

\* C34: the content of a web search is the call-failed document when
\* anything threw on the way, and otherwise the one document the fixed
\* precedence picks: results of the first query, else the error of the
\* first query, else the top-level error, else the whole parsed response;
\* a first query with success, no result and no error, under no top-level
\* error, gives the whole response.
C34_PayloadPrecedence ==
  (gw.called /\ gw.source = "web") =>
    LET content == gw.out.value[1].content
    IN /\ GwWebException => content.kind = "callFailed"
       /\ ~GwWebException =>
            LET p == gw.net.body.payload
            IN /\ content.kind = PickedKind(p)
               /\ (/\ Len(p.searchResults) > 0
                   /\ p.searchResults[1].success
                   /\ p.searchResults[1].nResults = 0
                   /\ p.searchResults[1].error = 0
                   /\ p.error = 0) =>
                    content = [kind |-> "raw",
                               len |-> SliceLen(PayloadJsonLen(p), MaxContent)]

\* C34 witness: the payload carries an error for the first query and a
\* top-level error as well, and the content is the first-query error
\* document.
C34_Witness ==
  /\ gw.called
  /\ gw.source = "web"
  /\ ~GwWebException
  /\ ~FirstSucceeded(gw.net.body.payload)
  /\ FirstHasError(gw.net.body.payload)
  /\ gw.net.body.payload.error > 0
  /\ gw.out.value[1].content.kind = "queryError"

\* C34 witness of the particular case: success without results or errors
\* gave the whole response.
C34_EmptySuccess ==
  /\ gw.called
  /\ gw.source = "web"
  /\ ~GwWebException
  /\ Len(gw.net.body.payload.searchResults) > 0
  /\ gw.net.body.payload.searchResults[1].success
  /\ gw.net.body.payload.searchResults[1].nResults = 0
  /\ gw.net.body.payload.error = 0
  /\ gw.out.value[1].content.kind = "raw"

\* The entity backend is configured and its category discovery fails.
GwDiscoveryFails ==
  /\ gw.source = "ontology"
  /\ gw.ont.rid
  /\ gw.ont.list.t = "throw"

\* What the entity gateway returns for the query when discovery lists no
\* category.
ZeroCategoriesContent ==
  ontologySearch(gw.query, [gw.ont EXCEPT !.list = [t |-> "ok", types |-> <<>>]]).value

\* C35: when category discovery fails, search still returns normally one
\* result, recorded as complete; its content is the "[INTERNAL DATA -
\* Error]" text carrying the query and the error message, which is not the
\* document of a search that found no category (the results document with
\* totalCount 0).
C35_DiscoveryFailureLabelled ==
  (gw.called /\ GwDiscoveryFails) =>
    /\ gw.out.t = "ok"
    /\ Len(gw.out.value) = 1
    /\ gw.out.acts = <<Act("search", "complete")>>
    /\ gw.out.value[1].content =
         [kind |-> "ontologyError",
          len |-> 286 + StrLen(gw.query) + 25 + gw.ont.list.msgLen]
    /\ ZeroCategoriesContent.kind = "ontology"
    /\ ZeroCategoriesContent.totalCount = 0
    /\ gw.out.value[1].content # ZeroCategoriesContent

\* C35 witness: discovery failed with a short error for the query "q1" and
\* the result is the error text of 353 characters.
C35_Witness ==
  /\ gw.called
  /\ GwDiscoveryFails
  /\ gw.query = "q1"
  /\ gw.ont.list.msgLen = 30
  /\ gw.out.value[1].url = "Foundry"
  /\ gw.out.value[1].content = [kind |-> "ontologyError", len |-> 353]

RECURSIVE AnsweredTotal(_)
\* The sum of the totalCount of the categories that answered.
AnsweredTotal(types) ==
  IF types = <<>> THEN 0
  ELSE (IF CatAnswers(types[1]) THEN gw.ont.perType[types[1]].search.value.totalCount
        ELSE 0)
       + AnsweredTotal(Tail(types))

\* C36: an auto-discover entity search returns at most maxResults entities
\* and at most three per searched category; what it returns is the
\* beginning of the entities of the categories taken in discovery order;
\* totalCount is the sum of the totals of the categories, whatever was cut;
\* the response carries no next page, so that hasMore of the gateway
\* document is false.
C36_UnionBounds ==
  CatDiscovered =>
    LET v == gw.out.value
        all == AnsweredData(CatSearched)
    IN /\ Len(v.data) <= Min(gw.options.maxResults,
                             PerCategoryResults * Len(CatSearched))
       /\ Len(v.data) = Min(Len(all), gw.options.maxResults)
       /\ \A k \in 1..Len(v.data) : v.data[k] = all[k]
       /\ v.totalCount = AnsweredTotal(CatSearched)
       /\ ~v.hasNext
       /\ ~ontologySearch(gw.query, gw.ont).value.hasMore

\* C36 witness: with maxResults 3, the one entity of the first category
\* and the first two of the three of the second were returned, in this
\* order, under a totalCount of 8, although the second category has a next
\* page.
C36_Witness ==
  /\ CatDiscovered
  /\ gw.options.maxResults = 3
  /\ Len(gw.ont.list.types) = 2
  /\ gw.ont.perType[TypeNames[2]].search.t = "ok"
  /\ gw.ont.perType[TypeNames[2]].search.value.hasNext
  /\ gw.out.value.data = <<Entity("e1", 300), Entity("e1", 6000), Entity("e2", 6000)>>
  /\ gw.out.value.totalCount = 8
  /\ ~gw.out.value.hasNext

\* C37: while the Judge is being asked, the number of findings its prompt
\* states as collected so far is the number of Findings in
\* ResearchState.findings.
C37_PromptCountsFindings ==
  phase = "ANALYZING" =>
    analyzeFindingsPrompt(findings, iteration).findingsCollected = Len(findings)

\* What the code does: the number stated as findings collected is the
\* number of characters of the combined findings text, the same number the
\* prompt states as characters of content; it is the number of findings
\* only when there is none.
C37_PromptCountsCharacters ==
  phase = "ANALYZING" =>
    LET prompt == analyzeFindingsPrompt(findings, iteration)
    IN /\ prompt.findingsCollected = combineFindings(findings)
       /\ prompt.findingsCollected = prompt.contentChars
       /\ (prompt.findingsCollected = Len(findings)) <=> (findings = <<>>)

\* The Judge is asked with two findings collected and told of 447.
C37_TwoFindings ==
  /\ phase = "ANALYZING"
  /\ Len(findings) = 2
  /\ analyzeFindingsPrompt(findings, iteration).findingsCollected = 447

\* The schema of the category was fetched and has a string property.
TqSearchable == gw.tb.schema = "ok" /\ gw.tb.stringFields > 0

\* The search requests among the requests of the settled query.
TqSearchRequests ==
  {k \in 1..Len(gw.reqs) : gw.reqs[k].op = "search"}

\* C38: queryOntologyByType with no search fields given fetches the schema
\* of the category first; it sends the search request of the category, once
\* and after the schema request, exactly when the schema fetch succeeded
\* and gave a string property; otherwise it sends no search request and
\* returns, without raising, the empty result with totalCount 0, whatever
\* the backend holds for the category.
C38_SearchOnlyWithStringFields ==
  gw.called =>
    /\ gw.reqs[1] = Req("ontology", "schema", gw.type, <<>>)
    /\ TqSearchable =>
         gw.reqs = <<Req("ontology", "schema", gw.type, <<>>),
                     Req("ontology", "search", gw.type, <<gw.query>>)>>
    /\ ~TqSearchable =>
         /\ TqSearchRequests = {}
         /\ gw.out.t = "ok"
         /\ gw.out.value.data = <<>>
         /\ gw.out.value.totalCount = 0

\* C38 witness: the schema fetch of a category failed while the backend
\* holds an entity for the query: no search request was sent and the
\* result is empty.
C38_Witness ==
  /\ gw.called
  /\ gw.tb.schema = "throw"
  /\ gw.tb.search.t = "ok"
  /\ gw.tb.search.value.totalCount = 1
  /\ Len(gw.reqs) = 1
  /\ gw.out = [t |-> "ok", value |-> EmptyResponse]

\* C38 witness for a schema without string property.
C38_NoStringField ==
  /\ gw.called
  /\ gw.tb.schema = "ok"
  /\ gw.tb.stringFields = 0
  /\ gw.tb.search.t = "ok"
  /\ Len(gw.reqs) = 1
  /\ gw.out = [t |-> "ok", value |-> EmptyResponse]

====
